---------------------------- MODULE Spec2Model ----------------------------
(***************************************************************************)
(* Model of the McDonald's coupon bot: the tool invoker (call_mcp_tool     *)
(* with its tenacity retry), the result classifiers, and the multi-tenant  *)
(* dispatch engine (scheduled_job and the other scheduled jobs).           *)
(*                                                                         *)
(* Texts are sequences of tokens.  A token is a maximal lexical unit       *)
(* (a word, a run of digits, a punctuation mark, a blank, a line break),   *)
(* so the substring tests and the regular expressions of the source are    *)
(* tests on token sequences.  Strings are ASCII: a Chinese word of the     *)
(* source is written in pinyin with the prefix zh_ (zh_shibai for 失败), and *)
(* the full-width colon is zh_colon.                                       *)
(***************************************************************************)
EXTENDS Integers, Sequences, FiniteSets, TLC

VARIABLES
    mcp,        \* the one call_mcp_tool invocation followed by SpecInvoker
    today,      \* get_cst_now().date(), a day number
    users,      \* the users table: user_id -> row, or NULL
    runs,       \* the dispatch runs alive: slot -> run record
    tasks,      \* the per-tenant coroutines of each run, in the order of creation
    scheduler,  \* the scheduler thread of run_scheduler and the wall clock it reads
    classifier, \* one result text and what the classifiers make of it
    coupon_utils, \* one call of a function of coupon_utils.py and what it returns
    accounts,   \* the accounts table: rows (user_id, name, mcp_token, is_active)
    chunker     \* one call of send_chunked or send_chunked_update and what it sends

vars == <<mcp, today, users, runs, tasks, scheduler, classifier, coupon_utils,
          accounts, chunker>>

\* Python's None in a nullable integer column or argument.
None == -1

\* ------------------------------------------------------------------ bounds

\* Enrolled tenants of Spec, of SpecJobs and of SpecSweep.
NumTenants == 1
JobTenants == 2
SweepTenants == 3
\* No dispatch run starts once a user's total_success + total_failed has reached
\* this number (caps the counters of the users table).
MaxAttempts == 2
\* Enrolled tenants of SpecLive: more than the semaphore has permits.
LiveTenants == 6
\* User ids of SpecRoster: all but the last are enrolled at the start.
RosterIds == 2
\* Calendar days a behaviour runs through.
MaxDay == 2
\* Restarts of the process a behaviour of SpecScheduler goes through.
MaxRestarts == 1

\* ------------------------------------------------------------------- texts

Max(a, b) == IF a >= b THEN a ELSE b
Min(a, b) == IF a <= b THEN a ELSE b

\* str.lower() on a token: the tokens of the model that hold upper-case letters.
Lower(tok) ==
    CASE tok = "Unauthorized" -> "unauthorized"
      [] tok = "Forbidden" -> "forbidden"
      [] tok = "Invalid" -> "invalid"
      [] tok = "Token" -> "token"
      [] tok = "Error" -> "error"
      [] tok = "ERROR" -> "error"
      [] tok = "MCP" -> "mcp"
      [] tok = "Success" -> "success"
      [] tok = "Failed" -> "failed"
      [] tok = "RetryError[<Future at 0x" -> "retryerror[<future at 0x"
      [] tok = " state=finished raised " -> " state=finished raised "
      [] tok = "HTTPStatusError" -> "httpstatuserror"
      [] tok = "ConnectError" -> "connecterror"
      [] tok = "McpError" -> "mcperror"
      [] OTHER -> tok

lower(text) == [i \in 1..Len(text) |-> Lower(text[i])]

\* Python's str.isspace() on a token.
IsSpace(tok) == tok \in {" ", "\n"}

\* Runs of digits, with their values: int(m.group(1)).
DigitVal(tok) ==
    CASE tok = "0" -> 0
      [] tok = "1" -> 1
      [] tok = "2" -> 2
      [] tok = "3" -> 3
      [] tok = "401" -> 401
      [] tok = "429" -> 429
      [] OTHER -> -1

IsDigits(tok) == DigitVal(tok) >= 0

\* A one-token marker occurs in a token when it is the token or a substring of
\* it: the digits of a memory address or of a coupon code hold "429" or "401",
\* the price 19.9 holds "9.9".
TokHas(tok, m) ==
    \/ tok = m
    \/ <<tok, m>> \in { <<"7f3a4297c1d0", "429">>,
                        <<"cp14019", "401">>, <<"CP14019", "401">>,
                        <<"19.9", "9.9">>, <<"29.9", "9.9">>, <<"39.9", "9.9">> }

\* marker in text, for a marker given as a token sequence.
Contains(text, marker) ==
    \E i \in 1..(Len(text) - Len(marker) + 1) :
        \A k \in 1..Len(marker) :
            IF Len(marker) = 1 THEN TokHas(text[i + k - 1], marker[k])
                               ELSE text[i + k - 1] = marker[k]

\* str.strip(): leading and trailing white space removed.
RECURSIVE lstrip(_)
lstrip(text) ==
    IF text # <<>> /\ IsSpace(Head(text)) THEN lstrip(Tail(text)) ELSE text

RECURSIVE rstrip(_)
rstrip(text) ==
    IF text # <<>> /\ IsSpace(text[Len(text)])
    THEN rstrip(SubSeq(text, 1, Len(text) - 1)) ELSE text

strip(text) == rstrip(lstrip(text))

\* The position after \s* from position i.
RECURSIVE SkipSpace(_, _)
SkipSpace(text, i) ==
    IF i <= Len(text) /\ IsSpace(text[i]) THEN SkipSpace(text, i + 1) ELSE i

\* re.search(label \s* colon \s* (\d+)): the positions of the digits of every
\* match; colonOptional is the "?" after the colon class.
CountMatches(text, labels, colonOptional) ==
    { d \in 1..Len(text) :
        \E i \in 1..Len(text) :
            /\ text[i] \in labels
            /\ LET j == SkipSpace(text, i + 1)
                   hasColon == j <= Len(text) /\ text[j] \in {":", "zh_colon"}
                   k == IF hasColon THEN SkipSpace(text, j + 1) ELSE j
               IN  /\ hasColon \/ colonOptional
                   /\ d = k
                   /\ IsDigits(text[d]) }

\* The leftmost match: its count, or -1 when the pattern does not match.
FirstCount(text, labels, colonOptional) ==
    LET ms == CountMatches(text, labels, colonOptional)
    IN  IF ms = {} THEN -1
        ELSE DigitVal(text[CHOOSE d \in ms : \A e \in ms : d <= e])


\* ------------------------------------------------------------- classifiers

\* The strings call_mcp_tool builds itself.
\* "Error: Invalid Token."
InvalidTokenText == <<"Error", ":", " ", "Invalid", " ", "Token", ".">>
\* "麦当劳 MCP 接口返回 429（请求过于频繁），请稍后再试。"
Friendly429 ==
    <<"zh_maidanglao", " ", "MCP", " ", "zh_jiekoufanhui", " ", "429", "zh_429_tail">>
\* "麦当劳 MCP 服务当前出现异常，可能在维护或短暂故障，请稍后再试。"
FriendlyGeneric ==
    <<"zh_maidanglao", " ", "MCP", " ", "zh_fuwudangqianchuxian", "zh_yichang",
      "zh_generic_tail">>

is_mcp_error_message(text0) ==
    IF text0 = <<>> THEN FALSE
    ELSE LET text == strip(text0)
             low == lower(text)
         IN  \/ Contains(text, <<"zh_maidanglao", " ", "MCP", " ",
                                 "zh_fuwudangqianchuxian", "zh_yichang">>)
             \/ Contains(text, <<"zh_maidanglao", " ", "MCP", " ",
                                 "zh_jiekoufanhui", " ", "429">>)
             \/ \E marker \in { <<"unauthorized">>, <<"forbidden">>,
                                <<"invalid", " ", "token">>,
                                <<"token", " ", "invalid">> } :
                    Contains(low, marker)
             \/ Contains(text, InvalidTokenText)

\* re.search(r"(^|\n)\s*(?:❌|错误[:：]?|error[:：]?)", text, re.IGNORECASE)
LeadingErrorLine(text) ==
    \E i \in 1..Len(text) :
        /\ i = 1 \/ text[i - 1] = "\n"
        /\ LET k == SkipSpace(text, i)
           IN  k <= Len(text) /\ Lower(text[k]) \in {"x_mark", "zh_cuowu", "error"}

\* 失败\s*[:：]\s*(\d+)  or  \bfail(?:ed|ure)?\b\s*[:：]?\s*(\d+) on the lower text
fail_match(text) ==
    LET zh == FirstCount(text, {"zh_shibai"}, FALSE)
    IN  IF zh >= 0 THEN zh
        ELSE FirstCount(lower(text), {"fail", "failed", "failure"}, TRUE)

\* 成功\s*[:：]\s*(\d+)  or  \bsuccess\b\s*[:：]?\s*(\d+) on the lower text
success_match(text) ==
    LET zh == FirstCount(text, {"zh_chenggong"}, FALSE)
    IN  IF zh >= 0 THEN zh
        ELSE FirstCount(lower(text), {"success"}, TRUE)

\* A result is a str here (call_mcp_tool returns no None), so the None test
\* of the source is the empty-text test.
is_result_error_message(result) ==
    IF result = <<>> THEN TRUE
    ELSE LET text == strip(result)
             low == lower(text)
         IN  IF text = <<>> THEN TRUE
             ELSE IF is_mcp_error_message(text) THEN TRUE
             ELSE IF /\ Contains(low, <<"mcp">>)
                     /\ \/ Contains(low, <<"429">>)
                        \/ Contains(text, <<"zh_yichang">>)
                        \/ Contains(low, <<"error">>)
                  THEN TRUE
             ELSE IF \E marker \in { <<"unauthorized">>,
                                     <<"invalid", " ", "token">>,
                                     <<"token", " ", "invalid">>,
                                     <<"forbidden">>, <<"401">> } :
                         Contains(low, marker)
                  THEN TRUE
             ELSE IF \E marker \in { <<"Token", " ", "zh_wuxiao">>,
                                     <<"token", " ", "zh_wuxiao">>,
                                     <<"Token", "zh_yishixiao">>,
                                     <<"token", "zh_yishixiao">>,
                                     <<"zh_weishouquan">>,
                                     <<"zh_renzhengshibai">> } :
                         Contains(text, marker)
                  THEN TRUE
             ELSE IF LeadingErrorLine(text) THEN TRUE
             ELSE LET fail == fail_match(text)
                      succ == success_match(text)
                  IN  IF fail > 0
                      THEN LET success_count == IF succ >= 0 THEN succ ELSE 0
                           IN  success_count = 0
                      ELSE FALSE

is_token_invalid_result(result) ==
    IF result = <<>> THEN FALSE
    ELSE LET text == result
             low == lower(text)
         IN  \/ \E marker \in { <<"401">>, <<"unauthorized">>,
                                <<"invalid", " ", "token">>,
                                <<"token", " ", "invalid">>, <<"forbidden">> } :
                    Contains(low, marker)
             \/ \E marker \in { <<"Token", " ", "zh_wuxiao">>,
                                <<"token", " ", "zh_wuxiao">>,
                                <<"Token", "zh_yishixiao">>,
                                <<"token", "zh_yishixiao">>,
                                <<"zh_weishouquan">> } :
                    Contains(text, marker)

\* A variant that reads the counts without asking is_result_error_message.
is_claim_success_result_mut(result) ==
    LET succ == success_match(result)
        fail == fail_match(result)
    IN  ~(succ <= 0 /\ fail > 0)

is_claim_success_result(result) ==
    IF is_result_error_message(result) THEN FALSE
    ELSE LET text == result
             succ == success_match(text)
             fail == fail_match(text)
         IN  IF succ >= 0 \/ fail >= 0
             THEN LET success_count == IF succ >= 0 THEN succ ELSE 0
                      fail_count == IF fail >= 0 THEN fail ELSE 0
                  IN  IF success_count = 0 /\ fail_count > 0 THEN FALSE
                      ELSE TRUE
             ELSE TRUE


\* ------------------------------------------------------------ tool invoker

\* What the remote service answers (result_message once cleaned up, line 336).
\* "成功: 3, 失败: 0"
TextCountsOk ==
    <<"zh_chenggong", ":", " ", "3", ",", " ", "zh_shibai", ":", " ", "0">>
\* "成功: 0, 失败: 2"
TextCountsFail ==
    <<"zh_chenggong", ":", " ", "0", ",", " ", "zh_shibai", ":", " ", "2">>
\* "领券结果\n麦辣鸡腿堡": no count, no marker
TextPlain == <<"zh_lingquanjieguo", "\n", "zh_mailajituibao">>
\* "401 Unauthorized", the service's own answer to a bad credential
TextAuth == <<"401", " ", "Unauthorized">>
\* "Token已失效"
TextTokenExpired == <<"Token", "zh_yishixiao">>

RemoteTexts == {TextCountsOk, TextCountsFail, TextPlain, TextAuth, TextTokenExpired, <<>>}

\* Exceptions an attempt of the exchange raises: a network error, a 5xx answer,
\* a 429 answer (rate limit), a 401 answer (credential invalid or expired).
TransientExc == {"ConnectError", "HTTP5xx", "HTTP429"}
AuthExc == {"HTTP401"}
ExcKinds == TransientExc \cup AuthExc

\* type(e).__name__
ClassName(exc) == IF exc = "ConnectError" THEN "ConnectError" ELSE "HTTPStatusError"

\* id() of tenacity's Future, as printed in its repr: any address, and some
\* addresses hold the digits 429.
Addresses == {"7f3a5c81d2e0", "7f3a4297c1d0"}

\* str(RetryError): "RetryError[<Future at 0x.. state=finished raised Cls>]";
\* the message of the wrapped exception is not part of it.
RetryErrorStr(exc, addr) ==
    <<"RetryError[<Future at 0x", addr, " state=finished raised ", ClassName(exc), ">]">>

\* str(asyncio.TimeoutError()) is the empty string.
TimeoutErrorStr == <<>>

\* The except branch of call_mcp_tool (lines 344-351).
friendly(raw) ==
    IF Contains(raw, <<"429">>) THEN Friendly429 ELSE FriendlyGeneric

\* A variant of the handler that catches the RetryError only.
except_Exception_mut(cls) == cls = "RetryError"

\* except Exception (line 344): the classes it catches. tenacity's RetryError,
\* asyncio's TimeoutError and what the session, the clean-up or the push raise
\* all derive from Exception.
ExceptionClasses ==
    {"RetryError", "TimeoutError", "ConnectError", "HTTPStatusError",
     "CleanupError", "PushError"}
except_Exception(cls) == cls \in ExceptionClasses

\* An exception of class cls and text raw leaves the try block (lines 344-351):
\* caught, it becomes the friendly string; else it leaves call_mcp_tool.
Except(m, how, cls, raw) ==
    IF except_Exception(cls)
    THEN [m EXCEPT !.pc = "returned", !.how = how, !.ret = friendly(raw)]
    ELSE [m EXCEPT !.pc = "raised", !.how = how]

\* A variant that stops after a fourth attempt.
stop_after_attempt_mut(attempt_number) == attempt_number >= 4

\* @retry(stop=stop_after_attempt(3), ...)
max_attempt_number == 3
stop_after_attempt(attempt_number) == attempt_number >= max_attempt_number

\* wait_exponential(multiplier=1, min=1, max=10)
wait_multiplier == 1
wait_min == 1
wait_max == 10

RECURSIVE Pow2(_)
Pow2(n) == IF n <= 0 THEN 1 ELSE 2 * Pow2(n - 1)

wait_exponential(attempt_number) ==
    Max(Max(0, wait_min), Min(wait_multiplier * Pow2(attempt_number - 1), wait_max))

\* @retry gives no retry= argument: tenacity retries on every Exception.
retry_if_exception(exc) == exc \in ExcKinds

\* A variant of the token test that lets the placeholder through.
TokenRejected_mut(token) == token = ""

\* if not token or token == "your_token_here" (line 309)
TokenRejected(token) == token = "" \/ token = "your_token_here"

McpIdle ==
    [pc |-> "idle", token |-> "", return_raw_content |-> FALSE, enable_push |-> FALSE,
     attempt_number |-> 0, opened |-> 0, slept |-> <<>>, raised |-> <<>>,
     how |-> "none", ret |-> <<>>]

\* call_mcp_tool up to its first await: the token test, then the first attempt starts.
McpCall(token, return_raw_content, enable_push) ==
    /\ mcp.pc = "idle"
    /\ mcp' = IF TokenRejected(token)
              THEN [mcp EXCEPT !.pc = "returned", !.token = token,
                               !.return_raw_content = return_raw_content,
                               !.enable_push = enable_push,
                               !.how = "rejected", !.ret = InvalidTokenText]
              ELSE [mcp EXCEPT !.pc = "attempting", !.token = token,
                               !.return_raw_content = return_raw_content,
                               !.enable_push = enable_push,
                               !.attempt_number = 1, !.opened = 1]
    /\ UNCHANGED <<today, users, runs, tasks, scheduler, classifier, coupon_utils, accounts, chunker>>

\* One attempt of _request_mcp_with_retry answers: the content is returned
\* (raw, or joined and cleaned up, then pushed when enable_push).
McpAttemptAnswers(text, cleanup_ok, push_ok) ==
    /\ mcp.pc = "attempting"
    /\ mcp' = IF mcp.return_raw_content
              THEN [mcp EXCEPT !.pc = "returned", !.how = "content", !.ret = text]
              ELSE IF text # <<>> /\ ~cleanup_ok
              THEN Except(mcp, "cleanup_failed", "CleanupError", <<"cleanup">>)
              ELSE IF text # <<>> /\ mcp.enable_push /\ ~push_ok
              THEN Except(mcp, "push_failed", "PushError", <<"push">>)
              ELSE [mcp EXCEPT !.pc = "returned", !.how = "content", !.ret = text]
    /\ UNCHANGED <<today, users, runs, tasks, scheduler, classifier, coupon_utils, accounts, chunker>>

\* One attempt raises: tenacity stops after the third attempt (RetryError, which
\* the except branch turns into a friendly string), else sleeps and retries.
McpAttemptRaises(exc, addr) ==
    /\ mcp.pc = "attempting"
    /\ LET r == [mcp EXCEPT !.raised = Append(@, exc)]
       IN  mcp' =
             IF ~retry_if_exception(exc)
             THEN Except(r, "not_retried", ClassName(exc), <<exc>>)
             ELSE IF stop_after_attempt(mcp.attempt_number)
             THEN Except(r, "exhausted", "RetryError", RetryErrorStr(exc, addr))
             ELSE [r EXCEPT !.pc = "sleeping",
                            !.slept = Append(@, wait_exponential(mcp.attempt_number))]
    /\ UNCHANGED <<today, users, runs, tasks, scheduler, classifier, coupon_utils, accounts, chunker>>

\* The sleep between two attempts ends: the next attempt opens a new session.
McpRetry ==
    /\ mcp.pc = "sleeping"
    /\ mcp' = [mcp EXCEPT !.pc = "attempting", !.attempt_number = @ + 1,
                          !.opened = @ + 1]
    /\ UNCHANGED <<today, users, runs, tasks, scheduler, classifier, coupon_utils, accounts, chunker>>

\* get_today_recommendation up to its first await (lines 525-537): the same
\* token test, then its two gathered calls; each is a call_mcp_tool with this
\* token and enable_push=False, and the invocation followed here is one of them.
TodayRecommendationCall(token) ==
    /\ mcp.pc = "idle"
    /\ mcp' = IF TokenRejected(token)
              THEN [mcp EXCEPT !.pc = "returned", !.token = token,
                               !.how = "rejected", !.ret = InvalidTokenText]
              ELSE [mcp EXCEPT !.pc = "attempting", !.token = token,
                               !.attempt_number = 1, !.opened = 1]
    /\ UNCHANGED <<today, users, runs, tasks, scheduler, classifier, coupon_utils, accounts, chunker>>

\* asyncio.wait_for(..., timeout=60) expires during an attempt or a sleep.
McpTimeout ==
    /\ mcp.pc \in {"attempting", "sleeping"}
    /\ mcp' = Except(mcp, "timeout", "TimeoutError", TimeoutErrorStr)
    /\ UNCHANGED <<today, users, runs, tasks, scheduler, classifier, coupon_utils, accounts, chunker>>


\* ------------------------------------------------------------- users table

\* A DateTime column holds <<>> (None) or <<date>>.
_coerce_date(value) == IF value = <<>> THEN None ELSE value[1]

\* get_cst_now()
get_cst_now == <<today>>

\* The row save_user_token inserts for a new user (the column defaults).
NewUser(token, report) ==
    [mcp_token |-> token, auto_claim_enabled |-> 1, claim_report_enabled |-> report,
     last_claim_at |-> <<>>, last_claim_success |-> None,
     total_success |-> 0, total_failed |-> 0]

\* The rows as (user_id, token, claim_report_enabled), in primary-key order.
RECURSIVE RowsOf(_, _)
RowsOf(table, ids) ==
    IF ids = {} THEN <<>>
    ELSE LET u == CHOOSE x \in ids : \A y \in ids : x <= y
         IN  <<[user_id |-> u, token |-> table[u].mcp_token,
                report_enabled |-> table[u].claim_report_enabled]>>
             \o RowsOf(table, ids \ {u})

\* A variant of the filter that lets every row through.
AutoClaimOn_mut(row) == TRUE

\* The filter of get_all_users: auto_claim_enabled IS NULL OR auto_claim_enabled = 1.
AutoClaimOn(row) == row.auto_claim_enabled = None \/ row.auto_claim_enabled = 1

get_all_users == RowsOf(users, {u \in DOMAIN users : AutoClaimOn(users[u])})

\* A variant that leaves the flag as it is.
set_auto_claim_enabled_mut(table, user_id, enabled) == table

set_auto_claim_enabled(table, user_id, enabled) ==
    IF user_id \in DOMAIN table
    THEN [table EXCEPT ![user_id].auto_claim_enabled = IF enabled THEN 1 ELSE 0]
    ELSE table

\* A variant that records nothing.
update_claim_stats_mut(table, user_id, success) == table

\* A variant that counts a success as a failure as well.
update_claim_stats_both(table, user_id, success) ==
    IF user_id \in DOMAIN table
    THEN [table EXCEPT
            ![user_id].last_claim_at = get_cst_now,
            ![user_id].last_claim_success = IF success THEN 1 ELSE 0,
            ![user_id].total_success = @ + (IF success THEN 1 ELSE 0),
            ![user_id].total_failed = @ + 1]
    ELSE table

update_claim_stats(table, user_id, success) ==
    IF user_id \in DOMAIN table
    THEN [table EXCEPT
            ![user_id].last_claim_at = get_cst_now,
            ![user_id].last_claim_success = IF success THEN 1 ELSE 0,
            ![user_id].total_success = @ + (IF success THEN 1 ELSE 0),
            ![user_id].total_failed = @ + (IF success THEN 0 ELSE 1)]
    ELSE table

\* A variant of the check that never finds the claim done.
AlreadyClaimedToday_mut(user_id) == FALSE

\* The idempotency check of process_user_claim (lines 1519-1527).
AlreadyClaimedToday(user_id) ==
    /\ user_id \in DOMAIN users
    /\ users[user_id].last_claim_success = 1
    /\ _coerce_date(users[user_id].last_claim_at) = _coerce_date(get_cst_now)


\* ---------------------------------------------------------- dispatch engine

\* How the exchange of one call_mcp_tool invocation ends, as the invoker above
\* ends it: with the service's content, with every attempt raising (the last
\* exception wrapped in a RetryError), or with the 60 s timeout.
Exchange(how, text, exc, addr) == [how |-> how, text |-> text, exc |-> exc, addr |-> addr]

ContentExchanges == { Exchange("content", t, "none", "none") : t \in RemoteTexts }
ExhaustedExchanges ==
    { Exchange("exhausted", <<>>, e, a) : e \in ExcKinds, a \in Addresses }
TimeoutExchanges == { Exchange("timeout", <<>>, "none", "none") }
Exchanges == ContentExchanges \cup ExhaustedExchanges \cup TimeoutExchanges

\* The value call_mcp_tool returns (enable_push=False, return_raw_content=False).
call_mcp_tool(token, ex) ==
    IF TokenRejected(token) THEN InvalidTokenText
    ELSE IF ex.how = "content" THEN ex.text
    ELSE IF ex.how = "exhausted" THEN friendly(RetryErrorStr(ex.exc, ex.addr))
    ELSE friendly(TimeoutErrorStr)

\* claim_for_token(token, enable_push=False)
claim_for_token(token, ex) == call_mcp_tool(token, ex)

\* The notification of process_user_claim (lines 1541-1550): which text
\* follows the result.
ClaimMessage(result, success, token_invalid) ==
    IF token_invalid THEN "prompt"
    ELSE IF is_result_error_message(result) THEN "fail_hint"
    ELSE IF success THEN "quote"
    ELSE "plain"

\* Lines 1532-1534 and 1541-1550 for one result.
ClaimOutcome(result) ==
    LET success == is_claim_success_result(result)
        token_invalid == is_token_invalid_result(result)
    IN  [success |-> success, token_invalid |-> token_invalid,
         message |-> ClaimMessage(result, success, token_invalid)]

DispatchTokens == {"token-of-the-user"}

\* ClaimOutcome(claim_for_token(token, ex)), tabulated.
ClaimOutcomes ==
    [token \in DispatchTokens, ex \in Exchanges |-> ClaimOutcome(claim_for_token(token, ex))]

\* No result under classification.
ClassifierIdle == [pc |-> "idle", result |-> <<>>, outcome |-> <<>>]

\* Result texts: an optional heading, a success count, an optional failure
\* count, an optional further line (a coupon name, a coupon code, the line of
\* a coupon that could not be claimed, "401 Unauthorized", "Token已失效",
\* "认证失败", a second failure count "失败: 2").
ResultHeadings == { <<>>, <<"zh_lingquanjieguo", "\n">> }
ResultSuccessCounts ==
    { <<"zh_chenggong", ":", " ", n>> : n \in {"0", "1", "3"} }
    \cup { <<"zh_chenggong", "zh_colon", "2">>, <<"Success", ":", " ", "2">>, <<>> }
ResultFailureCounts ==
    { <<>>, <<",", " ", "zh_shibai", ":", " ", "0">>,
      <<",", " ", "zh_shibai", ":", " ", "2">>, <<",", " ", "Failed", ":", " ", "0">> }
ResultLines ==
    { <<>>, <<"\n", "zh_mailajituibao">>, <<"\n", "zh_quanma", " ", "CP14019">>,
      <<"\n", "x_mark", " ", "zh_mailajituibao", " ", "zh_yilingwan">>,
      <<"\n", "401", " ", "Unauthorized">>, <<"\n", "Token", "zh_yishixiao">>,
      <<"\n", "zh_renzhengshibai">>,
      <<"\n", "zh_shibai", ":", " ", "2">> }
ResultTexts ==
    { h \o s \o f \o l : h \in ResultHeadings, s \in ResultSuccessCounts,
                         f \in ResultFailureCounts, l \in ResultLines }

\* Lines 1533-1534 of process_user_claim on one result: the classification.
classify_result ==
    /\ classifier.pc = "input"
    /\ classifier' = [classifier EXCEPT !.pc = "classified",
                                        !.outcome = ClaimOutcome(classifier.result)]
    /\ UNCHANGED <<mcp, today, users, runs, tasks, scheduler, coupon_utils, accounts, chunker>>

\* asyncio.Semaphore(5) of scheduled_job
ClaimConcurrency == 5

\* for _ in range(3) of safe_bot_send_message
SendTries == 3

\* safe_bot_send_message on the answers Telegram gives to its tries: "sent"
\* once a try succeeds, "raised" when a try fails with another error than
\* RetryAfter, "dropped" (returns None, nothing sent) after the last RetryAfter.
RECURSIVE safe_bot_send_message(_, _)
safe_bot_send_message(answers, try) ==
    IF try > SendTries \/ try > Len(answers) THEN "dropped"
    ELSE IF answers[try] = "ok" THEN "sent"
    ELSE IF answers[try] = "RetryAfter" THEN safe_bot_send_message(answers, try + 1)
    ELSE "raised"

\* What Telegram answers to the tries of one safe_bot_send_message.
TelegramAnswers ==
    { <<"ok">>, <<"error">>, <<"RetryAfter", "ok">>, <<"RetryAfter", "RetryAfter", "ok">>,
      <<"RetryAfter", "RetryAfter", "error">>,
      <<"RetryAfter", "RetryAfter", "RetryAfter", "ok">> }


\* --------------------------------------------------------- reminder bodies

\* str.splitlines(): the lines between line breaks, none after a final break.
RECURSIVE splitlines(_)
splitlines(text) ==
    IF text = <<>> THEN <<>>
    ELSE IF \E i \in 1..Len(text) : text[i] = "\n"
    THEN LET i == CHOOSE k \in 1..Len(text) :
                      text[k] = "\n" /\ \A j \in 1..(k - 1) : text[j] # "\n"
         IN  <<SubSeq(text, 1, i - 1)>> \o splitlines(SubSeq(text, i + 1, Len(text)))
    ELSE <<text>>

\* The coupon lists my-coupons answers with.
\* "## 您的优惠券列表\n\n## 麦旋风买一送一\n有效期: 2026-01-03"
TextCouponsSoon ==
    <<"##", " ", "zh_nindeyouhuiquanliebiao", "\n", "\n",
      "##", " ", "zh_maixuanfeng", "\n", "zh_youxiaoqi", ":", " ", "2026-01-03">>
\* "## 您的优惠券列表\n\n## 薯条\n有效期: 2026-01-09"
TextCouponsLater ==
    <<"##", " ", "zh_nindeyouhuiquanliebiao", "\n", "\n",
      "##", " ", "zh_shutiao", "\n", "zh_youxiaoqi", ":", " ", "2026-01-09">>
\* "## 您的优惠券列表": the title alone
TextCouponsNone == <<"##", " ", "zh_nindeyouhuiquanliebiao">>

CouponTexts == {TextCouponsSoon, TextCouponsLater, TextCouponsNone, <<>>}

\* datetime(year, month, day) of a YYYY-MM-DD token as a day number; day 1 of
\* the model is 2026-01-01.
DateDay(tok) ==
    CASE tok = "2026-01-03" -> 3
      [] tok = "2026-01-09" -> 9
      [] OTHER -> None

\* The day of the year of a "MM月DD日" token; "01月05日" is the token 01yue05ri.
MonthDay(tok) ==
    CASE tok = "01yue05ri" -> 5
      [] OTHER -> None

\* Days of the years 2026 and 2027.
YearDays == 365

\* datetime(now.year, 1, 1) as a day number.
year_start(now) == ((now - 1) \div YearDays) * YearDays

\* parse_expiry_date with now the reading of get_cst_now() of line 143: the
\* pattern (\d{4})[-/](\d{1,2})[-/](\d{1,2}), then the pattern
\* (\d{1,2})月\s*(\d{1,2})日 with the year of now and the step to the next
\* year when the date is before now (a midnight is before now when its day is
\* the day of now or earlier); each pattern takes its leftmost match.  The
\* lines of the model hold valid dates and no bare MM-DD date, so the third
\* and the fourth pattern decide nothing.
parse_expiry_date(line, now) ==
    LET full == { i \in 1..Len(line) : DateDay(line[i]) # None }
        yearless == { i \in 1..Len(line) : MonthDay(line[i]) # None }
        leftmost(ms) == CHOOSE i \in ms : \A j \in ms : i <= j
    IN  IF full # {} THEN DateDay(line[leftmost(full)])
        ELSE IF yearless # {}
        THEN LET date == year_start(now) + MonthDay(line[leftmost(yearless)])
             IN  IF date <= now THEN date + YearDays ELSE date
        ELSE None

\* _META_LABELS
_is_metadata_label(name) ==
    name = <<>> \/ \E i \in 1..Len(name) : name[i] \in {"zh_youxiaoqi", "zh_zhuangtai", "zh_quanma"}

\* _GENERIC_NAMES
_is_generic_coupon_name(name) ==
    name = <<>> \/ name \in {<<"zh_youhui">>, <<"zh_youhuiquan">>, <<"zh_quan">>}

\* _extract_coupon_name_from_line on the two shapes of line the lists hold: a
\* "## name" heading gives the name, a "label: value" line of a metadata label
\* and a line without a colon give "".
_extract_coupon_name_from_line(line) ==
    IF line # <<>> /\ Head(line) = "##"
    THEN LET name == strip(Tail(line))
         IN  IF name # <<>> /\ ~_is_metadata_label(name) THEN name ELSE <<>>
    ELSE <<>>

\* _extract_coupon_code: 券码, a colon, a code of three characters or more.
_extract_coupon_code(line) ==
    IF \E i \in 1..Len(line) :
           /\ line[i] = "zh_quanma"
           /\ LET j == SkipSpace(line, i + 1)
                  k == SkipSpace(line, j + 1)
              IN  /\ j <= Len(line) /\ line[j] \in {":", "zh_colon"}
                  /\ k <= Len(line) /\ line[k] = "CP14019"
    THEN "CP14019" ELSE ""

\* _extract_detail_from_line: what follows the first colon, up to 有效期 or a
\* bracket; "" when shorter than two characters.
_extract_detail_from_line(line) ==
    IF \E i \in 1..Len(line) : line[i] \in {":", "zh_colon"}
    THEN LET colon == IF \E i \in 1..Len(line) : line[i] = ":" THEN ":" ELSE "zh_colon"
             i == CHOOSE k \in 1..Len(line) :
                      line[k] = colon /\ \A j \in 1..(k - 1) : line[j] # colon
             rest == strip(SubSeq(line, i + 1, Len(line)))
             cut == IF \E k \in 1..Len(rest) : rest[k] \in {"zh_youxiaoqi", "("}
                    THEN CHOOSE k \in 1..Len(rest) :
                             /\ rest[k] \in {"zh_youxiaoqi", "("}
                             /\ \A j \in 1..(k - 1) : rest[j] \notin {"zh_youxiaoqi", "("}
                    ELSE Len(rest) + 1
         IN  strip(SubSeq(rest, 1, cut - 1))
    ELSE <<>>

\* {} of check_expiring_soon; a key the dict does not hold is None, "" or <<>>.
NoCoupon ==
    [has |-> FALSE, name |-> <<>>, raw_text |-> <<>>, code |-> "",
     expiry_date |-> None, days_left |-> None, expiry_line_idx |-> None]

\* (expiry - now).days: expiry is a midnight, now is later than midnight on its
\* day, and timedelta.days rounds down.
days_left(expiry, now) == expiry - now - 1

\* The readings of get_cst_now() during one call of check_expiring_soon on a
\* text of n lines, as day numbers: clock[1] is the reading of line 202,
\* clock[idx + 1] the reading parse_expiry_date makes for line idx.
SteadyClock(n, now) == [k \in 1..(n + 1) |-> now]

\* The loop of check_expiring_soon from line idx on (idx counts from 1, the
\* enumerate of the source from 0).  No line of the model holds a label of
\* _DETAIL_PATTERN, so _extract_descriptive_detail gives "".
RECURSIVE ExpiryScan(_, _, _, _, _)
ExpiryScan(lines, idx, current_coupon, expiring_coupons, clock) ==
    IF idx > Len(lines)
    THEN IF current_coupon.has /\ current_coupon.expiry_date # None
         THEN Append(expiring_coupons, current_coupon) ELSE expiring_coupons
    ELSE
      LET line == strip(lines[idx])
      IN  IF line = <<>>
          THEN IF current_coupon.has /\ current_coupon.expiry_date # None
               THEN ExpiryScan(lines, idx + 1, NoCoupon,
                               Append(expiring_coupons, current_coupon), clock)
               ELSE ExpiryScan(lines, idx + 1, current_coupon, expiring_coupons, clock)
          ELSE
            LET name_candidate == _extract_coupon_name_from_line(line)
                rename == /\ current_coupon.has
                          /\ current_coupon.expiry_date # None
                          /\ _is_generic_coupon_name(current_coupon.name)
                          /\ ~_is_generic_coupon_name(name_candidate)
                closed == name_candidate # <<>> /\ current_coupon.has /\ ~rename
                acc == IF closed THEN Append(expiring_coupons, current_coupon)
                                 ELSE expiring_coupons
                named == IF name_candidate = <<>> THEN current_coupon
                         ELSE IF rename
                         THEN [current_coupon EXCEPT !.name = name_candidate,
                                                     !.raw_text = line]
                         ELSE [NoCoupon EXCEPT !.has = TRUE, !.name = name_candidate,
                                               !.raw_text = line]
                code == _extract_coupon_code(line)
                coded == IF code # "" /\ named.has
                         THEN [named EXCEPT !.code = code] ELSE named
                detail == _extract_detail_from_line(line)
                detailed == IF /\ coded.has
                               /\ _is_generic_coupon_name(coded.name)
                               /\ detail # <<>>
                               /\ ~Contains(coded.name, detail)
                            THEN [coded EXCEPT !.name =
                                     IF coded.name = <<>> THEN detail
                                     ELSE coded.name \o <<" ">> \o detail]
                            ELSE coded
                expiry == parse_expiry_date(line, clock[idx + 1])
                started == IF detailed.has THEN detailed
                           ELSE [NoCoupon EXCEPT !.has = TRUE, !.name = name_candidate,
                                                 !.raw_text = line]
                dated == IF expiry = None THEN detailed
                         ELSE [started EXCEPT !.expiry_date = expiry,
                                              !.days_left = days_left(expiry, clock[1]),
                                              !.expiry_line_idx = idx - 1]
            IN  ExpiryScan(lines, idx + 1, dated, acc, clock)

\* expiring_coupons as the loop and the final append leave it (line 256).
expiring_coupons(coupons_text, clock) ==
    ExpiryScan(splitlines(coupons_text), 1, NoCoupon, <<>>, clock)

\* The filter of lines 259-262.
ExpiringFilter_mut(c, threshold) == c.expiry_date # None /\ c.days_left <= threshold

ExpiringFilter(c, threshold) ==
    c.expiry_date # None /\ 0 <= c.days_left /\ c.days_left <= threshold

check_expiring_soon(coupons_text, threshold, clock) ==
    SelectSeq(expiring_coupons(coupons_text, clock),
              LAMBDA c : ExpiringFilter(c, threshold))

\* The names scheduled_meal_reminder collects (lines 1714-1722).
available_coupons(coupons_text) ==
    LET lines == splitlines(coupons_text)
        names == [i \in 1..Len(lines) |->
                    LET line == strip(lines[i])
                    IN  IF line # <<>> /\ Head(line) = "##" THEN strip(Tail(line)) ELSE <<>>]
    IN  SelectSeq(names, LAMBDA n : n # <<>> /\ n # <<"zh_nindeyouhuiquanliebiao">>)

\* sanitize_text on a digest: the blank lines go, the other lines are kept
\* (a digest of the model holds no image tag, bare link or HTML tag).
RECURSIVE JoinLines(_)
JoinLines(lines) ==
    IF lines = <<>> THEN <<>>
    ELSE IF Len(lines) = 1 THEN lines[1]
    ELSE lines[1] \o <<"\n">> \o JoinLines(Tail(lines))

sanitize_text(text) ==
    JoinLines(SelectSeq([i \in 1..Len(splitlines(text)) |-> strip(splitlines(text)[i])],
                        LAMBDA l : l # <<>>))

\* score of analyze_coupon_value before the cap of line 302: 免费 0元; 买一送一
\* 1+1 买1送1; 半价 5折; 19.9 29.9 39.9; 9.9 6.9 4.9; 巨无霸 麦辣鸡腿堡 薯条
\* 汉堡; 限时 今日.
coupon_score(coupon_text) ==
    LET text == lower(coupon_text)
        any(words) == \E word \in words : Contains(text, <<word>>)
    IN  50
        + (IF any({"zh_mianfei", "0yuan"}) THEN 50 ELSE 0)
        + (IF any({"zh_maiyisongyi", "1+1", "zh_mai1song1"}) THEN 40 ELSE 0)
        + (IF any({"zh_banjia", "5zhe"}) THEN 35 ELSE 0)
        + (IF any({"19.9", "29.9", "39.9"}) THEN 25 ELSE 0)
        + (IF any({"9.9", "6.9", "4.9"}) THEN 15 ELSE 0)
        + (IF any({"zh_juwuba", "zh_mailajituibao", "zh_shutiao", "zh_hanbao"})
           THEN 10 ELSE 0)
        + (IF any({"zh_xianshi", "zh_jinri"}) THEN 5 ELSE 0)

\* return score, without min(score, 100)
analyze_coupon_value_mut(coupon_text) == coupon_score(coupon_text)

analyze_coupon_value(coupon_text) == Min(coupon_score(coupon_text), 100)

\* No call of a function of coupon_utils.py under way.
CouponUtilsIdle ==
    [pc |-> "idle", fn |-> "", text |-> <<>>, threshold |-> 0, clock |-> <<>>,
     expiring_coupons |-> <<>>, result |-> <<>>]

\* One call of check_expiring_soon, from its arguments and the readings of the
\* clock to its return value.
check_expiring_soon_returns ==
    /\ coupon_utils.pc = "input"
    /\ coupon_utils.fn = "check_expiring_soon"
    /\ coupon_utils' =
           [coupon_utils EXCEPT
               !.pc = "returned",
               !.expiring_coupons = expiring_coupons(coupon_utils.text, coupon_utils.clock),
               !.result = check_expiring_soon(coupon_utils.text, coupon_utils.threshold,
                                              coupon_utils.clock)]
    /\ UNCHANGED <<mcp, today, users, runs, tasks, scheduler, classifier, accounts, chunker>>

\* The label format_expiry_reminder puts before a record (lines 365-371):
\* "今天过期！", "明天过期" or "N天后过期".
urgency(days) ==
    IF days = 0 THEN "zh_jintianguoqi"
    ELSE IF days = 1 THEN "zh_mingtianguoqi" ELSE "zh_tianhouguoqi"

\* One call of analyze_coupon_value.
analyze_coupon_value_returns ==
    /\ coupon_utils.pc = "input"
    /\ coupon_utils.fn = "analyze_coupon_value"
    /\ coupon_utils' = [coupon_utils EXCEPT
                           !.pc = "returned",
                           !.result = analyze_coupon_value(coupon_utils.text)]
    /\ UNCHANGED <<mcp, today, users, runs, tasks, scheduler, classifier, accounts, chunker>>

\* The digest of get_today_recommendation (lines 539-619) for the answers of
\* its two calls; the highlights are the keyword matches on available_text,
\* and there is no time tip at 10 o'clock, the hour of the scheduled digest.
Highlights(available_text) ==
    (IF Contains(available_text, <<"zh_mianfei">>) THEN <<"zh_highlight_free", "\n">> ELSE <<>>)
    \o (IF Contains(available_text, <<"zh_banjia">>) THEN <<"zh_highlight_half", "\n">> ELSE <<>>)

get_today_recommendation(token, calendar_text, available_text) ==
    IF TokenRejected(token) THEN InvalidTokenText
    ELSE
      LET calendar_error == calendar_text = <<>> \/ is_mcp_error_message(calendar_text)
          available_error == available_text = <<>> \/ is_mcp_error_message(available_text)
          calendar_part ==
              IF calendar_text = <<>> THEN <<"zh_zanweichaxundao_huodong">>
              ELSE IF is_mcp_error_message(calendar_text)
              THEN <<"zh_chaxunhuodong_wenti", "\n">> \o strip(calendar_text)
              ELSE strip(calendar_text)
          available_part ==
              IF available_text = <<>> THEN <<"zh_zanweichaxundao_quan">>
              ELSE IF is_mcp_error_message(available_text)
              THEN <<"zh_chaxunkelingquan_wenti", "\n">> \o strip(available_text)
              ELSE strip(available_text)
      IN  <<"calendar_mark", " ", "today", "\n">>
          \o (IF available_text # <<>> /\ Highlights(available_text) # <<>>
              THEN <<"\n">> \o Highlights(available_text) ELSE <<>>)
          \o <<"\n", "separator", "\n", "\n", "zh_jintiandehuodong", "\n">>
          \o calendar_part
          \o <<"\n", "\n", "separator", "\n", "\n", "zh_nidangqiankelingdeyouhuiquan", "\n">>
          \o available_part
          \o <<"\n", "\n">>
          \o (IF calendar_error /\ available_error
              THEN <<"zh_zanshiwufahuoqu", " ", "MCP", " ", "zh_fuwuduanzan", "zh_yichang",
                     "zh_huowangluowenti">>
              ELSE <<"fries_mark", " ", "quote">>)

\* ------------------------------------------------------------ dispatch runs

\* asyncio.Semaphore(4) of scheduled_today_job
TodayConcurrency == 4

\* check_expiring_soon(coupons_text, days_threshold=3)
days_threshold == 3

\* The exchanges followed for the two calls of the digest and for my-coupons.
TodayExchanges ==
    { Exchange("content", TextPlain, "none", "none"),
      Exchange("content", <<>>, "none", "none"),
      Exchange("exhausted", <<>>, "ConnectError", "7f3a5c81d2e0"),
      Exchange("timeout", <<>>, "none", "none") }

ListExchanges ==
    { Exchange("content", t, "none", "none") : t \in CouponTexts }
    \cup { Exchange("exhausted", <<>>, "HTTP5xx", "7f3a5c81d2e0") }

\* is_result_error_message(result) of process_user_today (line 1579), tabulated.
TodayIsError ==
    [token \in DispatchTokens, cal \in TodayExchanges, av \in TodayExchanges |->
        is_result_error_message(
            get_today_recommendation(token, call_mcp_tool(token, cal),
                                     call_mcp_tool(token, av)))]

\* The body of the loops of scheduled_expiry_check and scheduled_meal_reminder
\* from the answer of list_my_coupons(token, return_raw=True) to the decision:
\* "continue", or "send" a reminder.  On content the answer is a list of
\* contents (none for an empty answer), else it is the str of call_mcp_tool.
\* The jobs run at 20:00, 11:30 and 17:30, so no midnight passes while
\* check_expiring_soon reads the list.
ReminderBody(kind, token, ex, now) ==
    LET is_str == TokenRejected(token) \/ ex.how # "content"
        raw_coupons == call_mcp_tool(token, ex)
        coupons_text == IF is_str THEN raw_coupons ELSE raw_coupons \o <<"\n">>
    IN  IF raw_coupons = <<>> THEN "continue"
        ELSE IF is_str /\ is_result_error_message(raw_coupons) THEN "continue"
        ELSE IF is_mcp_error_message(coupons_text) THEN "continue"
        ELSE IF kind = "expiry"
        THEN IF check_expiring_soon(coupons_text, days_threshold,
                                    SteadyClock(Len(splitlines(coupons_text)), now)) # <<>>
             THEN "send" ELSE "continue"
        ELSE IF available_coupons(coupons_text) # <<>> THEN "send" ELSE "continue"

ReminderKinds == {"expiry", "lunch", "dinner"}

ReminderBodies ==
    [kind \in ReminderKinds, token \in DispatchTokens, ex \in ListExchanges,
     now \in 1..MaxDay |-> ReminderBody(kind, token, ex, now)]

IdleRun == [state |-> "idle", kind |-> "none", semaphore |-> 0]

\* One per-tenant coroutine of a run (process_user_claim, process_user_today)
\* or one iteration of the loop of a reminder job.  pc is where it is
\* suspended; msg is the notification it is sending; outcome and sent are how
\* it ended and what it delivered.
NewTask(row) ==
    [user_id |-> row.user_id, token |-> row.token, report_enabled |-> row.report_enabled,
     pc |-> "pending", msg |-> "none", outcome |-> "none", sent |-> "none"]

\* A coroutine that has ended.
Ended(t, outcome, sent) ==
    [t EXCEPT !.pc = "done", !.msg = "none", !.outcome = outcome, !.sent = sent]

\* A variant of the loop that leaves out the last user.
TasksFor_mut(rows) == [i \in 1..(Len(rows) - 1) |-> NewTask(rows[i])]

\* for user_id, token, report_enabled in users: if not token: continue
TasksFor(rows) == SelectSeq([i \in 1..Len(rows) |-> NewTask(rows[i])], LAMBDA t : t.token # "")

AllDone(r) == \A i \in 1..Len(tasks[r]) : tasks[r][i].pc = "done"

Escaped(r) == \E i \in 1..Len(tasks[r]) : tasks[r][i].outcome = "escaped"

\* The coroutines of run r past the semaphore and not yet ended.
InFlight(r) == { i \in 1..Len(tasks[r]) : tasks[r][i].pc \notin {"pending", "done"} }

Attempts(u) == users[u].total_success + users[u].total_failed

\* A job coroutine up to its first await: the users are read once, and one
\* coroutine (or loop iteration) per user with a token is set up.
StartRun(r, kind, permits) ==
    /\ runs[r].state = "idle"
    /\ runs' = [runs EXCEPT ![r] = [state |-> "running", kind |-> kind,
                                    semaphore |-> permits]]
    /\ tasks' = [tasks EXCEPT ![r] = TasksFor(get_all_users)]
    /\ UNCHANGED <<mcp, scheduler, today, users, classifier, coupon_utils, accounts, chunker>>

\* scheduled_job, created by job_wrapper_claim or by /admin sweep: all its
\* coroutines share a new semaphore.
scheduled_job(r) ==
    /\ \A u \in DOMAIN users : Attempts(u) < MaxAttempts
    /\ StartRun(r, "claim", ClaimConcurrency)

scheduled_today_job(r) == StartRun(r, "today", TodayConcurrency)

\* The reminder jobs take the users one after the other, without a semaphore.
scheduled_expiry_check(r) == StartRun(r, "expiry", 0)

scheduled_meal_reminder(r, meal_type) == StartRun(r, meal_type, 0)

\* The job coroutine ends: asyncio.gather returns once every coroutine has
\* ended, a loop ends after its last user; the job logs "... complete.".
run_complete(r) ==
    /\ runs[r].state = "running"
    /\ AllDone(r)
    /\ ~Escaped(r)
    /\ runs' = [runs EXCEPT ![r] = IdleRun]
    /\ tasks' = [tasks EXCEPT ![r] = <<>>]
    /\ UNCHANGED <<mcp, scheduler, today, users, classifier, coupon_utils, accounts, chunker>>

\* asyncio.gather(*tasks) without return_exceptions: the first exception of a
\* coroutine is raised in the job, which ends with it; the other coroutines
\* are not cancelled.
gather_raises(r) ==
    /\ runs[r].state = "running"
    /\ Escaped(r)
    /\ runs' = [runs EXCEPT ![r].state = "raised"]
    /\ UNCHANGED <<mcp, scheduler, today, users, tasks, classifier, coupon_utils, accounts, chunker>>

\* The coroutines a raised job left behind have all ended.
coroutines_end(r) ==
    /\ runs[r].state = "raised"
    /\ AllDone(r)
    /\ runs' = [runs EXCEPT ![r] = IdleRun]
    /\ tasks' = [tasks EXCEPT ![r] = <<>>]
    /\ UNCHANGED <<mcp, scheduler, today, users, classifier, coupon_utils, accounts, chunker>>

\* A variant of the semaphore that never wakes a waiter: only the coroutines
\* that found a free permit at the start get past it.
MayAcquire_mut(r, i) == runs[r].semaphore > 0 /\ i <= 5

\* asyncio.Semaphore wakes its waiters first in, first out, and the coroutines
\* of gather start in the order of creation.
MayAcquire(r, i) ==
    /\ runs[r].semaphore > 0
    /\ \A j \in 1..(i - 1) : tasks[r][j].pc # "pending"

\* ------------------------------------------------------------- claim tasks

\* process_user_claim from "async with semaphore" to its first await: the
\* idempotency check, then either the early return or the remote call begins.
process_user_claim(r, i) ==
    /\ runs[r].kind = "claim"
    /\ i \in 1..Len(tasks[r])
    /\ tasks[r][i].pc = "pending"
    /\ MayAcquire(r, i)
    /\ LET t == tasks[r][i]
       IN  IF AlreadyClaimedToday(t.user_id)
           THEN /\ tasks' = [tasks EXCEPT ![r][i] = Ended(t, "skipped", "none")]
                /\ UNCHANGED runs
           ELSE /\ tasks' = [tasks EXCEPT ![r][i].pc = "calling"]
                /\ runs' = [runs EXCEPT ![r].semaphore = @ - 1]
    /\ UNCHANGED <<mcp, scheduler, today, users, classifier, coupon_utils, accounts, chunker>>

\* A variant that reports to every tenant.
ReportOn_mut(report_enabled) == TRUE

\* if report_enabled is None or report_enabled == 1
ReportOn(report_enabled) == report_enabled = None \/ report_enabled = 1

\* A variant that writes the statistics only when no notification is due.
claim_returns_mut(r, i, ex) ==
    /\ i \in 1..Len(tasks[r])
    /\ tasks[r][i].pc = "calling"
    /\ LET t == tasks[r][i]
           o == ClaimOutcomes[t.token, ex]
           updated == update_claim_stats(users, t.user_id, o.success)
       IN  IF ReportOn(t.report_enabled)
           THEN /\ tasks' = [tasks EXCEPT ![r][i].pc = "sending",
                                          ![r][i].msg = o.message]
                /\ UNCHANGED <<runs, users, accounts, chunker>>
           ELSE /\ tasks' = [tasks EXCEPT ![r][i] = Ended(t, "completed", "none")]
                /\ runs' = [runs EXCEPT ![r].semaphore = @ + 1]
                /\ users' = IF o.token_invalid
                            THEN set_auto_claim_enabled(updated, t.user_id, FALSE)
                            ELSE updated
    /\ UNCHANGED <<mcp, scheduler, today, classifier, coupon_utils, accounts, chunker>>

\* claim_for_token returns: the result is classified, the statistics are
\* updated, the user is disabled on an invalid token, and the notification is
\* begun when reporting is on.
claim_returns(r, i, ex) ==
    /\ i \in 1..Len(tasks[r])
    /\ tasks[r][i].pc = "calling"
    /\ LET t == tasks[r][i]
           o == ClaimOutcomes[t.token, ex]
           updated == update_claim_stats(users, t.user_id, o.success)
       IN  /\ users' = IF o.token_invalid
                       THEN set_auto_claim_enabled(updated, t.user_id, FALSE)
                       ELSE updated
           /\ IF ReportOn(t.report_enabled)
              THEN /\ tasks' = [tasks EXCEPT ![r][i].pc = "sending",
                                             ![r][i].msg = o.message]
                   /\ UNCHANGED runs
              ELSE /\ tasks' = [tasks EXCEPT ![r][i] = Ended(t, "completed", "none")]
                   /\ runs' = [runs EXCEPT ![r].semaphore = @ + 1]
    /\ UNCHANGED <<mcp, scheduler, today, classifier, coupon_utils, accounts, chunker>>

\* safe_bot_send_message returns or raises; an error it raises is caught and
\* logged by process_user_claim.  The semaphore is released.
send_returns(r, i, answers) ==
    /\ runs[r].kind = "claim"
    /\ i \in 1..Len(tasks[r])
    /\ tasks[r][i].pc = "sending"
    /\ LET t == tasks[r][i]
           how == safe_bot_send_message(answers, 1)
       IN  tasks' = [tasks EXCEPT ![r][i] =
                       IF how = "sent" THEN Ended(t, "completed", t.msg)
                       ELSE IF how = "dropped" THEN Ended(t, "completed", "none")
                       ELSE Ended(t, "failed", "none")]
    /\ runs' = [runs EXCEPT ![r].semaphore = @ + 1]
    /\ UNCHANGED <<mcp, scheduler, today, users, classifier, coupon_utils, accounts, chunker>>

\* ------------------------------------------------------------- today tasks

\* process_user_today from "async with semaphore" to its first await.
process_user_today(r, i) ==
    /\ runs[r].kind = "today"
    /\ i \in 1..Len(tasks[r])
    /\ tasks[r][i].pc = "pending"
    /\ MayAcquire(r, i)
    /\ tasks' = [tasks EXCEPT ![r][i].pc = "recommending"]
    /\ runs' = [runs EXCEPT ![r].semaphore = @ - 1]
    /\ UNCHANGED <<mcp, scheduler, today, users, classifier, coupon_utils, accounts, chunker>>

\* asyncio.wait_for(get_today_recommendation(token), timeout=40) returns the
\* digest or raises TimeoutError: when the 40 s pass (slow), and always before
\* a call of the digest reaches its own 60 s timeout.
today_returns(r, i, cal, av, slow) ==
    /\ i \in 1..Len(tasks[r])
    /\ tasks[r][i].pc = "recommending"
    /\ LET t == tasks[r][i]
           timed_out == slow \/ cal.how = "timeout" \/ av.how = "timeout"
       IN  tasks' = [tasks EXCEPT ![r][i] =
                       IF timed_out THEN [t EXCEPT !.pc = "handling", !.msg = "timeout"]
                       ELSE IF TodayIsError[t.token, cal, av]
                       THEN [t EXCEPT !.pc = "sending", !.msg = "service_down"]
                       ELSE [t EXCEPT !.pc = "calendar"]]
    /\ UNCHANGED <<mcp, scheduler, today, users, runs, classifier, coupon_utils, accounts, chunker>>

\* list_campaign_calendar(token, return_raw=True) returns.  A digest that is
\* no error message holds its fixed lines, so sanitized is never shorter than
\* 10 characters and create_page is awaited next.
calendar_returns(r, i) ==
    /\ i \in 1..Len(tasks[r])
    /\ tasks[r][i].pc = "calendar"
    /\ tasks' = [tasks EXCEPT ![r][i].pc = "paging"]
    /\ UNCHANGED <<mcp, scheduler, today, users, runs, classifier, coupon_utils, accounts, chunker>>

\* telegraph_service.create_page returns a URL or None (its own errors are
\* caught): the summary with the URL is sent, or the digest in chunks.
page_returns(r, i, page_url) ==
    /\ i \in 1..Len(tasks[r])
    /\ tasks[r][i].pc = "paging"
    /\ tasks' = [tasks EXCEPT ![r][i].pc = "sending",
                              ![r][i].msg = IF page_url # "" THEN "page" ELSE "chunk"]
    /\ UNCHANGED <<mcp, scheduler, today, users, runs, classifier, coupon_utils, accounts, chunker>>

\* A safe_bot_send_message of the try block returns or raises.  An error on a
\* chunk is caught by send_chunked_update, which sends a notice in its place;
\* any other error reaches "except Exception" of process_user_today, which
\* sends the error message.
today_send_returns(r, i, answers) ==
    /\ runs[r].kind = "today"
    /\ i \in 1..Len(tasks[r])
    /\ tasks[r][i].pc = "sending"
    /\ LET t == tasks[r][i]
           how == safe_bot_send_message(answers, 1)
       IN  IF how = "raised"
           THEN /\ tasks' = [tasks EXCEPT ![r][i] =
                               IF t.msg = "chunk" THEN [t EXCEPT !.msg = "omitted"]
                               ELSE [t EXCEPT !.pc = "handling", !.msg = "error"]]
                /\ UNCHANGED runs
           ELSE /\ tasks' = [tasks EXCEPT ![r][i] =
                               Ended(t, "completed", IF how = "sent" THEN t.msg ELSE "none")]
                /\ runs' = [runs EXCEPT ![r].semaphore = @ + 1]
    /\ UNCHANGED <<mcp, scheduler, today, users, classifier, coupon_utils, accounts, chunker>>

\* The safe_bot_send_message of an except handler of process_user_today
\* (lines 1607, 1610) returns or raises; no handler is around it, so an error
\* it raises leaves the coroutine.  The semaphore is released.
today_handler_returns(r, i, answers) ==
    /\ i \in 1..Len(tasks[r])
    /\ tasks[r][i].pc = "handling"
    /\ LET t == tasks[r][i]
           how == safe_bot_send_message(answers, 1)
       IN  tasks' = [tasks EXCEPT ![r][i] =
                       IF how = "sent" THEN Ended(t, "failed", t.msg)
                       ELSE IF how = "dropped" THEN Ended(t, "failed", "none")
                       ELSE Ended(t, "escaped", "none")]
    /\ runs' = [runs EXCEPT ![r].semaphore = @ + 1]
    /\ UNCHANGED <<mcp, scheduler, today, users, classifier, coupon_utils, accounts, chunker>>

\* ---------------------------------------------------------- reminder loops

\* The loop of a reminder job reaches user i: list_my_coupons is awaited.
reminder_lists(r, i) ==
    /\ runs[r].kind \in ReminderKinds
    /\ i \in 1..Len(tasks[r])
    /\ tasks[r][i].pc = "pending"
    /\ \A j \in 1..(i - 1) : tasks[r][j].pc = "done"
    /\ tasks' = [tasks EXCEPT ![r][i].pc = "listing"]
    /\ UNCHANGED <<mcp, scheduler, today, users, runs, classifier, coupon_utils, accounts, chunker>>

\* list_my_coupons returns: "continue" goes to the next user at once, else
\* the reminder is sent.
list_returns(r, i, ex) ==
    /\ i \in 1..Len(tasks[r])
    /\ tasks[r][i].pc = "listing"
    /\ LET t == tasks[r][i]
       IN  tasks' = [tasks EXCEPT ![r][i] =
                       IF ReminderBodies[runs[r].kind, t.token, ex, today] = "continue"
                       THEN Ended(t, "skipped", "none")
                       ELSE [t EXCEPT !.pc = "sending", !.msg = "reminder"]]
    /\ UNCHANGED <<mcp, scheduler, today, users, runs, classifier, coupon_utils, accounts, chunker>>

\* safe_bot_send_message of the reminder returns or raises; an error it raises
\* is caught and logged by the loop, which then sleeps 0.5 s.
reminder_send_returns(r, i, answers) ==
    /\ runs[r].kind \in ReminderKinds
    /\ i \in 1..Len(tasks[r])
    /\ tasks[r][i].pc = "sending"
    /\ LET t == tasks[r][i]
           how == safe_bot_send_message(answers, 1)
       IN  tasks' = [tasks EXCEPT ![r][i] =
                       [t EXCEPT !.pc = "sleeping", !.msg = "none",
                                 !.outcome = IF how = "raised" THEN "failed" ELSE "completed",
                                 !.sent = IF how = "sent" THEN t.msg ELSE "none"]]
    /\ UNCHANGED <<mcp, scheduler, today, users, runs, classifier, coupon_utils, accounts, chunker>>

\* asyncio.sleep(0.5) returns: the loop goes to the next user.
sleep_returns(r, i) ==
    /\ i \in 1..Len(tasks[r])
    /\ tasks[r][i].pc = "sleeping"
    /\ tasks' = [tasks EXCEPT ![r][i].pc = "done"]
    /\ UNCHANGED <<mcp, scheduler, today, users, runs, classifier, coupon_utils, accounts, chunker>>

\* -------------------------------------------------------------- scheduler

\* The times of day get_cst_now().strftime("%H:%M") passes through, in the
\* order of the day: the five keys of schedule_map, and "00:00" for every
\* minute that is no key.
Minutes == <<"00:00", "10:30", "10:35", "11:30", "17:30", "20:00">>

\* schedule_map of run_scheduler (lines 1806-1812)
schedule_map ==
    [hhmm \in {"10:30", "10:35", "11:30", "17:30", "20:00"} |->
        CASE hhmm = "10:30" -> "job_wrapper_claim"
          [] hhmm = "10:35" -> "job_wrapper_today"
          [] hhmm = "11:30" -> "job_wrapper_lunch"
          [] hhmm = "17:30" -> "job_wrapper_dinner"
          [] hhmm = "20:00" -> "job_wrapper_expiry"]

\* The thread as main() starts it: last_run = {} (line 1813), no job handed
\* off; clock is the index in Minutes of the minute the wall clock is in,
\* polled tells whether an iteration of the loop has read the clock in this
\* minute, handed_off counts the calls of each wrapper on each day.
SchedulerStart ==
    [clock |-> 1, polled |-> FALSE, last_run |-> <<>>, restarts |-> 0,
     handed_off |-> [hhmm \in DOMAIN schedule_map |-> [d \in 1..MaxDay |-> 0]]]

\* last_run.get(hhmm)
last_run_get(last_run, hhmm) ==
    IF hhmm \in DOMAIN last_run THEN last_run[hhmm] ELSE None

\* last_run[hhmm] = date
last_run_set(last_run, hhmm, date) ==
    [k \in DOMAIN last_run \cup {hhmm} |-> IF k = hhmm THEN date ELSE last_run[k]]

\* last_date != cst_now.date() (lines 1819-1820)
NotYetRunToday(last_run, hhmm, date) == last_run_get(last_run, hhmm) # date

\* One iteration of the while loop of run_scheduler (lines 1815-1822): read
\* the clock, and when the minute is a key not yet run on this date, call its
\* wrapper (run_coroutine_threadsafe hands the job to the event loop) and
\* note the date.
run_scheduler_poll ==
    /\ LET hhmm == Minutes[scheduler.clock]
       IN  scheduler' =
             IF hhmm \in DOMAIN schedule_map
                /\ NotYetRunToday(scheduler.last_run, hhmm, today)
             THEN [scheduler EXCEPT
                     !.polled = TRUE,
                     !.handed_off[hhmm][today] = @ + 1,
                     !.last_run = last_run_set(@, hhmm, today)]
             ELSE [scheduler EXCEPT !.polled = TRUE]
    /\ scheduler' # scheduler
    /\ UNCHANGED <<mcp, today, users, runs, tasks, classifier, coupon_utils, accounts, chunker>>

\* The wall clock passes into the next minute (and, after the last minute,
\* into the next day) between two iterations of the loop.
ClockAdvance ==
    [scheduler EXCEPT !.polled = FALSE,
                      !.clock = IF @ = Len(Minutes) THEN 1 ELSE @ + 1]

\* time.sleep(30) (line 1823) returns in time: every minute sees an iteration.
MinutePasses ==
    /\ scheduler.polled
    /\ scheduler.clock = Len(Minutes) => today < MaxDay
    /\ scheduler' = ClockAdvance
    /\ today' = IF scheduler.clock = Len(Minutes) THEN today + 1 ELSE today
    /\ UNCHANGED <<mcp, users, runs, tasks, classifier, coupon_utils, accounts, chunker>>

\* The iteration is late (the process was suspended or starved for more than
\* the 30 s the sleep leaves): a minute passes that no iteration has seen.
PollDelayed ==
    /\ ~scheduler.polled
    /\ scheduler.clock = Len(Minutes) => today < MaxDay
    /\ scheduler' = ClockAdvance
    /\ today' = IF scheduler.clock = Len(Minutes) THEN today + 1 ELSE today
    /\ UNCHANGED <<mcp, users, runs, tasks, classifier, coupon_utils, accounts, chunker>>

\* The process is restarted: main() starts a new thread, whose last_run is
\* empty again (it is kept in memory only).
ProcessRestart ==
    /\ scheduler.restarts < MaxRestarts
    /\ scheduler' = [scheduler EXCEPT !.last_run = <<>>, !.polled = FALSE,
                                      !.restarts = @ + 1]
    /\ UNCHANGED <<mcp, today, users, runs, tasks, classifier, coupon_utils, accounts, chunker>>

\* ----------------------------------------------------------- environment

\* Midnight (UTC+8).
NextDay ==
    /\ today < MaxDay
    /\ today' = today + 1
    /\ UNCHANGED <<mcp, scheduler, users, runs, tasks, classifier, coupon_utils, accounts, chunker>>

\* /autoclaim on | off
autoclaim_command(user_id, enabled) ==
    /\ user_id \in DOMAIN users
    /\ users[user_id].mcp_token # ""
    /\ users' = set_auto_claim_enabled(users, user_id, enabled)
    /\ UNCHANGED <<mcp, scheduler, today, runs, tasks, classifier, coupon_utils, accounts, chunker>>

\* ------------------------------------------------------------- accounts

\* get_accounts: the rows of the user, in no particular order.
get_accounts(table, user_id) == {a \in table : a.user_id = user_id}

\* The rows that the query of get_active_account matches.
ActiveAccounts(table, user_id) == {a \in get_accounts(table, user_id) : a.is_active = 1}

\* UPDATE accounts SET is_active = 0 WHERE user_id = :user_id
Deactivated(table, user_id) ==
    {IF a.user_id = user_id THEN [a EXCEPT !.is_active = 0] ELSE a : a \in table}

\* A variant of upsert_account that keeps the token of an account that exists.
upsert_account_mut(table, user_id, name, token, set_active) ==
    LET exists == \E a \in table : a.user_id = user_id /\ a.name = name
        base == IF set_active THEN Deactivated(table, user_id) ELSE table
    IN  IF exists
        THEN {IF a.user_id = user_id /\ a.name = name
              THEN [a EXCEPT !.is_active = IF set_active THEN 1 ELSE @]
              ELSE a : a \in base}
        ELSE base \cup {[user_id |-> user_id, name |-> name, mcp_token |-> token,
                         is_active |-> IF set_active THEN 1 ELSE 0]}

\* upsert_account: the token of the account (user_id, name) is replaced or the
\* account is inserted; with set_active the user's other accounts are
\* deactivated and this one is activated.
upsert_account(table, user_id, name, token, set_active) ==
    LET exists == \E a \in table : a.user_id = user_id /\ a.name = name
        base == IF set_active THEN Deactivated(table, user_id) ELSE table
    IN  IF exists
        THEN {IF a.user_id = user_id /\ a.name = name
              THEN [a EXCEPT !.mcp_token = token,
                             !.is_active = IF set_active THEN 1 ELSE @]
              ELSE a : a \in base}
        ELSE base \cup {[user_id |-> user_id, name |-> name, mcp_token |-> token,
                         is_active |-> IF set_active THEN 1 ELSE 0]}

\* A variant of set_active_account that leaves the other accounts as they are.
set_active_account_mut(table, user_id, name) ==
    {IF a.user_id = user_id /\ a.name = name THEN [a EXCEPT !.is_active = 1] ELSE a :
        a \in table}

\* set_active_account: every account of the user is deactivated, then the
\* named one is activated.
set_active_account(table, user_id, name) ==
    {IF a.user_id = user_id /\ a.name = name THEN [a EXCEPT !.is_active = 1] ELSE a :
        a \in Deactivated(table, user_id)}

\* get_user_token: the token of the active account, else the token of the
\* users row, else None (here "").  The query of get_active_account takes the
\* first row that is active.
get_user_token(user_id) ==
    IF ActiveAccounts(accounts, user_id) # {}
    THEN (CHOOSE a \in ActiveAccounts(accounts, user_id) : TRUE).mcp_token
    ELSE IF user_id \in DOMAIN users THEN users[user_id].mcp_token ELSE ""

\* The accounts table when every user bound the token of the users row by
\* sending it to the bot: save_user_token keeps one account "default" in step.
DefaultAccounts(table) ==
    {[user_id |-> u, name |-> "default", mcp_token |-> table[u].mcp_token,
      is_active |-> 1] : u \in DOMAIN table}

\* A variant of save_user_token that also clears the last-run fields of an
\* existing row.
save_user_token_mut(table, user_id, token) ==
    IF user_id \in DOMAIN table
    THEN [table EXCEPT ![user_id].mcp_token = token,
                       ![user_id].last_claim_at = <<>>,
                       ![user_id].last_claim_success = None]
    ELSE [u \in DOMAIN table \cup {user_id} |->
            IF u = user_id THEN NewUser(token, 1) ELSE table[u]]

\* save_user_token: the token of an existing row is replaced, a new row gets
\* the column defaults.
save_user_token(table, user_id, token) ==
    IF user_id \in DOMAIN table
    THEN [table EXCEPT ![user_id].mcp_token = token]
    ELSE [u \in DOMAIN table \cup {user_id} |->
            IF u = user_id THEN NewUser(token, 1) ELSE table[u]]

\* delete_user_token: the row is deleted.
delete_user_token(table, user_id) ==
    [u \in DOMAIN table \ {user_id} |-> table[u]]

\* A user sends a token that the validating call accepts (handle_message,
\* line 782): save_user_token writes the users row and, sync_default_account
\* being on, makes "default" the active account with the same token.
handle_message(user_id, token) ==
    /\ \/ save_user_token(users, user_id, token) # users
       \/ upsert_account(accounts, user_id, "default", token, TRUE) # accounts
    /\ users' = save_user_token(users, user_id, token)
    /\ accounts' = upsert_account(accounts, user_id, "default", token, TRUE)
    /\ UNCHANGED <<mcp, scheduler, today, runs, tasks, classifier, coupon_utils, chunker>>

\* /unbind: delete_user_token deletes the users row and the user's accounts.
unbind_command(user_id) ==
    /\ user_id \in DOMAIN users
    /\ users' = delete_user_token(users, user_id)
    /\ accounts' = {a \in accounts : a.user_id # user_id}
    /\ UNCHANGED <<mcp, scheduler, today, runs, tasks, classifier, coupon_utils, chunker>>

\* /account add <name> <token>, after the validating call accepted the token
\* (lines 1369-1370): the account is upserted as the active one and the token
\* is written to the users row, sync_default_account being off.
account_add(user_id, name, token) ==
    /\ \/ upsert_account(accounts, user_id, name, token, TRUE) # accounts
       \/ save_user_token(users, user_id, token) # users
    /\ accounts' = upsert_account(accounts, user_id, name, token, TRUE)
    /\ users' = save_user_token(users, user_id, token)
    /\ UNCHANGED <<mcp, scheduler, today, runs, tasks, classifier, coupon_utils, chunker>>

\* /account use <name> of an account that exists and whose token is readable
\* (lines 1378-1391).
account_use(user_id, name) ==
    /\ \E target \in get_accounts(accounts, user_id) :
          /\ target.name = name
          /\ target.mcp_token # ""
          /\ \/ set_active_account(accounts, user_id, name) # accounts
             \/ save_user_token(users, user_id, target.mcp_token) # users
          /\ accounts' = set_active_account(accounts, user_id, name)
          /\ users' = save_user_token(users, user_id, target.mcp_token)
    /\ UNCHANGED <<mcp, scheduler, today, runs, tasks, classifier, coupon_utils, chunker>>

\* /account del <name> of an account that exists (lines 1410-1447): the
\* account is deleted; when it was the active one, the first of the remaining
\* accounts (the query has no ORDER BY) becomes active and its token is
\* written to the users row, and without a remaining account
\* delete_user_token is called.
account_del(user_id, name) ==
    /\ \E acc \in get_accounts(accounts, user_id) :
          /\ acc.name = name
          /\ LET deleted == accounts \ {acc}
                 remaining == get_accounts(deleted, user_id)
             IN  IF acc.is_active = 1
                 THEN IF remaining # {}
                      THEN \E first \in remaining :
                              /\ accounts' = set_active_account(deleted, user_id, first.name)
                              /\ users' = save_user_token(users, user_id, first.mcp_token)
                      ELSE /\ users' = delete_user_token(users, user_id)
                           /\ accounts' = {a \in deleted : a.user_id # user_id}
                 ELSE /\ accounts' = deleted
                      /\ UNCHANGED users
    /\ UNCHANGED <<mcp, scheduler, today, runs, tasks, classifier, coupon_utils, chunker>>

\* ------------------------------------------------------- chunked sending

\* A text is a sequence of characters here, so that Len is len().
\* The loop over text.splitlines() of send_chunked and send_chunked_update:
\* buf is flushed to parts when the next line would not fit, and the line is
\* joined to buf and the whole stripped.
RECURSIVE ChunkLoop(_, _, _, _)
ChunkLoop(lines, buf, parts, chunk_size) ==
    IF lines = <<>>
    THEN IF buf # <<>> THEN Append(parts, buf) ELSE parts
    ELSE LET line == Head(lines)
             flush == Len(buf) + Len(line) + 1 > chunk_size
         IN  ChunkLoop(Tail(lines),
                       strip((IF flush THEN <<>> ELSE buf) \o <<"\n">> \o line),
                       IF flush THEN Append(parts, buf) ELSE parts,
                       chunk_size)

\* parts after the loop.
parts(text, chunk_size) == ChunkLoop(splitlines(text), <<>>, <<>>, chunk_size)

\* [p[i:i+chunk_size] for i in range(0, len(p), chunk_size)]
Slices(p, chunk_size) ==
    [k \in 1..((Len(p) + chunk_size - 1) \div chunk_size) |->
        SubSeq(p, (k - 1) * chunk_size + 1, Min(k * chunk_size, Len(p)))]

\* final_parts: a part that fits is kept, a longer one is cut into slices.
RECURSIVE Resliced(_, _)
Resliced(ps, chunk_size) ==
    IF ps = <<>> THEN <<>>
    ELSE (IF Len(Head(ps)) <= chunk_size THEN <<Head(ps)>>
          ELSE Slices(Head(ps), chunk_size))
         \o Resliced(Tail(ps), chunk_size)

final_parts(text, chunk_size) ==
    IF text = <<>> THEN <<>> ELSE Resliced(parts(text, chunk_size), chunk_size)

\* One call of a chunked sender: the text and chunk size it is given and the
\* chunks it hands to safe_reply_text or safe_bot_send_message, in order.
ChunkerIdle ==
    [pc |-> "idle", fn |-> "none", text |-> <<>>, chunk_size |-> 0, handed |-> <<>>]

\* send_chunked hands every element of final_parts to safe_reply_text.
send_chunked ==
    /\ chunker.pc = "input"
    /\ chunker.fn = "send_chunked"
    /\ chunker' = [chunker EXCEPT !.pc = "sent",
                                  !.handed = final_parts(chunker.text, chunker.chunk_size)]
    /\ UNCHANGED <<mcp, today, users, runs, tasks, scheduler, classifier, coupon_utils, accounts>>

\* send_chunked_update hands every element of final_parts to
\* safe_bot_send_message.
send_chunked_update ==
    /\ chunker.pc = "input"
    /\ chunker.fn = "send_chunked_update"
    /\ chunker' = [chunker EXCEPT !.pc = "sent",
                                  !.handed = final_parts(chunker.text, chunker.chunk_size)]
    /\ UNCHANGED <<mcp, today, users, runs, tasks, scheduler, classifier, coupon_utils, accounts>>

\* /claim of a user with a token, at the return of claim_for_token: the result
\* is classified and update_claim_stats is called (lines 807-809); the reply
\* that follows changes no state.
claim_command(user_id, ex) ==
    /\ user_id \in DOMAIN users
    /\ get_user_token(user_id) # ""
    /\ Attempts(user_id) < MaxAttempts
    /\ LET result == claim_for_token(get_user_token(user_id), ex)
           success == is_claim_success_result(result)
       IN  users' = update_claim_stats(users, user_id, success)
    /\ UNCHANGED <<mcp, scheduler, today, runs, tasks, classifier, coupon_utils, accounts, chunker>>

\* ---------------------------------------------------------- specifications

Enrolled(n, reports) == [1..n -> {NewUser("token-of-the-user", rep) : rep \in reports}]

\* The claim job, one scheduled_job coroutine alive at a time, over the days,
\* with the users switching /autoclaim.
Init ==
    /\ mcp = McpIdle
    /\ today = 1
    /\ users \in Enrolled(NumTenants, {0, 1})
    /\ runs = [r \in {"dispatch"} |-> IdleRun]
    /\ tasks = [r \in {"dispatch"} |-> <<>>]
    /\ scheduler = SchedulerStart
    /\ accounts = DefaultAccounts(users)
    /\ chunker = ChunkerIdle
    /\ coupon_utils = CouponUtilsIdle
    /\ classifier = ClassifierIdle

Next ==
    \/ \E r \in DOMAIN runs : scheduled_job(r)
    \/ \E r \in DOMAIN runs : run_complete(r)
    \/ \E r \in DOMAIN runs, i \in DOMAIN users : process_user_claim(r, i)
    \/ \E r \in DOMAIN runs, i \in DOMAIN users, ex \in Exchanges : claim_returns(r, i, ex)
    \/ \E r \in DOMAIN runs, i \in DOMAIN users, a \in TelegramAnswers : send_returns(r, i, a)
    \/ NextDay
    \/ \E u \in DOMAIN users, e \in BOOLEAN : autoclaim_command(u, e)

Spec == Init /\ [][Next]_vars

\* The jobs of every kind on one day, one job coroutine alive at a time.
InitJobs ==
    /\ mcp = McpIdle
    /\ today = 1
    /\ users \in Enrolled(JobTenants, {1})
    /\ runs = [r \in {"dispatch"} |-> IdleRun]
    /\ tasks = [r \in {"dispatch"} |-> <<>>]
    /\ scheduler = SchedulerStart
    /\ accounts = DefaultAccounts(users)
    /\ chunker = ChunkerIdle
    /\ coupon_utils = CouponUtilsIdle
    /\ classifier = ClassifierIdle

NextJobs ==
    \/ \E r \in DOMAIN runs : scheduled_job(r)
    \/ \E r \in DOMAIN runs : scheduled_today_job(r)
    \/ \E r \in DOMAIN runs : scheduled_expiry_check(r)
    \/ \E r \in DOMAIN runs, meal_type \in {"lunch", "dinner"} :
          scheduled_meal_reminder(r, meal_type)
    \/ \E r \in DOMAIN runs : run_complete(r)
    \/ \E r \in DOMAIN runs : gather_raises(r)
    \/ \E r \in DOMAIN runs : coroutines_end(r)
    \/ \E r \in DOMAIN runs, i \in DOMAIN users : process_user_claim(r, i)
    \/ \E r \in DOMAIN runs, i \in DOMAIN users, ex \in Exchanges : claim_returns(r, i, ex)
    \/ \E r \in DOMAIN runs, i \in DOMAIN users, a \in TelegramAnswers : send_returns(r, i, a)
    \/ \E r \in DOMAIN runs, i \in DOMAIN users : process_user_today(r, i)
    \/ \E r \in DOMAIN runs, i \in DOMAIN users, cal \in TodayExchanges,
          av \in TodayExchanges, slow \in BOOLEAN : today_returns(r, i, cal, av, slow)
    \/ \E r \in DOMAIN runs, i \in DOMAIN users : calendar_returns(r, i)
    \/ \E r \in DOMAIN runs, i \in DOMAIN users,
          page_url \in {"", "https://telegra.ph/page"} : page_returns(r, i, page_url)
    \/ \E r \in DOMAIN runs, i \in DOMAIN users, a \in TelegramAnswers :
          today_send_returns(r, i, a)
    \/ \E r \in DOMAIN runs, i \in DOMAIN users, a \in TelegramAnswers :
          today_handler_returns(r, i, a)
    \/ \E r \in DOMAIN runs, i \in DOMAIN users : reminder_lists(r, i)
    \/ \E r \in DOMAIN runs, i \in DOMAIN users, ex \in ListExchanges : list_returns(r, i, ex)
    \/ \E r \in DOMAIN runs, i \in DOMAIN users, a \in TelegramAnswers :
          reminder_send_returns(r, i, a)
    \/ \E r \in DOMAIN runs, i \in DOMAIN users : sleep_returns(r, i)
    \/ \E u \in DOMAIN users, e \in BOOLEAN : autoclaim_command(u, e)

SpecJobs == InitJobs /\ [][NextJobs]_vars

\* Two scheduled_job coroutines alive at once: the one job_wrapper_claim
\* created and the one of /admin sweep (or of two /admin sweep), the users
\* having switched the report off.
SweepExchanges ==
    { Exchange("content", TextCountsOk, "none", "none"),
      Exchange("timeout", <<>>, "none", "none") }

InitSweep ==
    /\ mcp = McpIdle
    /\ today = 1
    /\ users \in Enrolled(SweepTenants, {0})
    /\ runs = [r \in {"scheduler", "sweep"} |-> IdleRun]
    /\ tasks = [r \in {"scheduler", "sweep"} |-> <<>>]
    /\ scheduler = SchedulerStart
    /\ accounts = DefaultAccounts(users)
    /\ chunker = ChunkerIdle
    /\ coupon_utils = CouponUtilsIdle
    /\ classifier = ClassifierIdle

NextSweep ==
    \/ \E r \in DOMAIN runs : scheduled_job(r)
    \/ \E r \in DOMAIN runs : run_complete(r)
    \/ \E r \in DOMAIN runs, i \in DOMAIN users : process_user_claim(r, i)
    \/ \E r \in DOMAIN runs, i \in DOMAIN users, ex \in SweepExchanges :
          claim_returns(r, i, ex)

SpecSweep == InitSweep /\ [][NextSweep]_vars

\* One scheduled_job coroutine at a time while users enrol, unbind and switch
\* /autoclaim; the service grants every claim, Telegram accepts a message or
\* refuses it.
RosterExchanges == { Exchange("content", TextCountsOk, "none", "none") }
RosterAnswers == { <<"ok">>, <<"error">> }

InitRoster ==
    /\ mcp = McpIdle
    /\ today = 1
    /\ users \in Enrolled(RosterIds - 1, {1})
    /\ runs = [r \in {"dispatch"} |-> IdleRun]
    /\ tasks = [r \in {"dispatch"} |-> <<>>]
    /\ scheduler = SchedulerStart
    /\ accounts = DefaultAccounts(users)
    /\ chunker = ChunkerIdle
    /\ coupon_utils = CouponUtilsIdle
    /\ classifier = ClassifierIdle

NextRoster ==
    \/ \E r \in DOMAIN runs : scheduled_job(r)
    \/ \E r \in DOMAIN runs : run_complete(r)
    \/ \E r \in DOMAIN runs, i \in 1..RosterIds : process_user_claim(r, i)
    \/ \E r \in DOMAIN runs, i \in 1..RosterIds, ex \in RosterExchanges :
          claim_returns(r, i, ex)
    \/ \E r \in DOMAIN runs, i \in 1..RosterIds, answers \in RosterAnswers :
          send_returns(r, i, answers)
    \/ \E u \in 1..RosterIds, enabled \in BOOLEAN : autoclaim_command(u, enabled)
    \/ \E u \in 1..RosterIds, token \in DispatchTokens : handle_message(u, token)
    \/ \E u \in 1..RosterIds : unbind_command(u)

SpecRoster == InitRoster /\ [][NextRoster]_vars

\* One scheduled_job coroutine at a time while the users send /claim,
\* /autoclaim, /unbind and tokens; the service grants a claim or reports that
\* nothing could be claimed.
CommandExchanges ==
    { Exchange("content", TextCountsOk, "none", "none"),
      Exchange("content", TextCountsFail, "none", "none") }

InitCommands ==
    /\ mcp = McpIdle
    /\ today = 1
    /\ users \in Enrolled(NumTenants, {1})
    /\ runs = [r \in {"dispatch"} |-> IdleRun]
    /\ tasks = [r \in {"dispatch"} |-> <<>>]
    /\ scheduler = SchedulerStart
    /\ accounts = DefaultAccounts(users)
    /\ chunker = ChunkerIdle
    /\ coupon_utils = CouponUtilsIdle
    /\ classifier = ClassifierIdle

NextCommands ==
    \/ \E r \in DOMAIN runs : scheduled_job(r)
    \/ \E r \in DOMAIN runs : run_complete(r)
    \/ \E r \in DOMAIN runs, i \in 1..NumTenants : process_user_claim(r, i)
    \/ \E r \in DOMAIN runs, i \in 1..NumTenants, ex \in CommandExchanges :
          claim_returns(r, i, ex)
    \/ \E r \in DOMAIN runs, i \in 1..NumTenants, answers \in RosterAnswers :
          send_returns(r, i, answers)
    \/ \E u \in 1..NumTenants, ex \in CommandExchanges : claim_command(u, ex)
    \/ \E u \in 1..NumTenants, enabled \in BOOLEAN : autoclaim_command(u, enabled)
    \/ \E u \in 1..NumTenants, token \in DispatchTokens : handle_message(u, token)
    \/ \E u \in 1..NumTenants : unbind_command(u)

SpecCommands == InitCommands /\ [][NextCommands]_vars

\* One scheduled_job coroutine with more users than permits; the event loop
\* runs every coroutine that is ready, and every remote call and every
\* notification comes back (the service grants the claim, Telegram accepts
\* the message or refuses it).
LiveRuns == {"dispatch"}

InitLive ==
    /\ mcp = McpIdle
    /\ today = 1
    /\ users \in Enrolled(LiveTenants, {1})
    /\ runs = [r \in LiveRuns |-> IdleRun]
    /\ tasks = [r \in LiveRuns |-> <<>>]
    /\ scheduler = SchedulerStart
    /\ accounts = DefaultAccounts(users)
    /\ chunker = ChunkerIdle
    /\ coupon_utils = CouponUtilsIdle
    /\ classifier = ClassifierIdle

NextLive ==
    \/ \E r \in LiveRuns : scheduled_job(r)
    \/ \E r \in LiveRuns : run_complete(r)
    \/ \E r \in LiveRuns, i \in 1..LiveTenants : process_user_claim(r, i)
    \/ \E r \in LiveRuns, i \in 1..LiveTenants, ex \in RosterExchanges :
          claim_returns(r, i, ex)
    \/ \E r \in LiveRuns, i \in 1..LiveTenants, answers \in RosterAnswers :
          send_returns(r, i, answers)

SpecLive ==
    /\ InitLive
    /\ [][NextLive]_vars
    /\ WF_vars(\E r \in LiveRuns : run_complete(r))
    /\ WF_vars(\E r \in LiveRuns, i \in 1..LiveTenants : process_user_claim(r, i))
    /\ WF_vars(\E r \in LiveRuns, i \in 1..LiveTenants, ex \in RosterExchanges :
                  claim_returns(r, i, ex))
    /\ WF_vars(\E r \in LiveRuns, i \in 1..LiveTenants, answers \in RosterAnswers :
                  send_returns(r, i, answers))

\* The classification of one result text.
InitClassifier ==
    /\ mcp = McpIdle
    /\ today = 1
    /\ users = <<>>
    /\ runs = <<>>
    /\ tasks = <<>>
    /\ scheduler = SchedulerStart
    /\ accounts = DefaultAccounts(users)
    /\ chunker = ChunkerIdle
    /\ coupon_utils = CouponUtilsIdle
    /\ classifier \in { [pc |-> "input", result |-> t, outcome |-> <<>>] : t \in ResultTexts }

NextClassifier == classify_result

SpecClassifier == InitClassifier /\ [][NextClassifier]_vars

\* The scheduler thread and the wall clock.
InitScheduler ==
    /\ mcp = McpIdle
    /\ today = 1
    /\ users = <<>>
    /\ runs = <<>>
    /\ tasks = <<>>
    /\ scheduler = SchedulerStart
    /\ accounts = DefaultAccounts(users)
    /\ chunker = ChunkerIdle
    /\ coupon_utils = CouponUtilsIdle
    /\ classifier = ClassifierIdle

NextScheduler ==
    \/ run_scheduler_poll
    \/ MinutePasses
    \/ PollDelayed
    \/ ProcessRestart

SpecScheduler == InitScheduler /\ [][NextScheduler]_vars

\* One call_mcp_tool invocation.
InvokerTokens == {"", "your_token_here", "token-of-the-user"}

InitInvoker ==
    /\ mcp = McpIdle
    /\ today = 1
    /\ users = <<>>
    /\ runs = <<>>
    /\ tasks = <<>>
    /\ scheduler = SchedulerStart
    /\ accounts = DefaultAccounts(users)
    /\ chunker = ChunkerIdle
    /\ coupon_utils = CouponUtilsIdle
    /\ classifier = ClassifierIdle

NextInvoker ==
    \/ \E token \in InvokerTokens, raw \in BOOLEAN, push \in BOOLEAN :
          McpCall(token, raw, push)
    \/ \E token \in InvokerTokens : TodayRecommendationCall(token)
    \/ \E text \in RemoteTexts, cleanup_ok \in BOOLEAN, push_ok \in BOOLEAN :
          McpAttemptAnswers(text, cleanup_ok, push_ok)
    \/ \E exc \in ExcKinds, addr \in Addresses : McpAttemptRaises(exc, addr)
    \/ McpRetry
    \/ McpTimeout

SpecInvoker == InitInvoker /\ [][NextInvoker]_vars

\* The calls of coupon_utils.py: check_expiring_soon on a coupon list of up to
\* MaxLines lines read on a day up to MaxNow, during which midnight may pass
\* once, and analyze_coupon_value on a name of up to MaxWords words.
MaxLines == 3
MaxNow == 5
MaxWords == 3

\* "## 薯条", "## 麦旋风", a blank line, "有效期: 2026-01-03",
\* "有效期至 01月05日", "券码: CP14019"
CouponLines ==
    { <<"##", " ", "zh_shutiao">>, <<"##", " ", "zh_maixuanfeng">>, <<>>,
      <<"zh_youxiaoqi", ":", " ", "2026-01-03">>,
      <<"zh_youxiaoqi", "zh_zhi", " ", "01yue05ri">>,
      <<"zh_quanma", ":", " ", "CP14019">> }

CouponLists ==
    { JoinLines(ls) : ls \in UNION { [1..n -> CouponLines] : n \in 0..MaxLines } }

\* The readings of the clock during a pass over n lines that starts on day
\* now: get_cst_now() never goes back, and midnight passes at most once.
Clocks(n) ==
    { [k \in 1..(n + 1) |-> IF k > c THEN now + 1 ELSE now] :
        now \in 1..MaxNow, c \in 1..(n + 1) }

Thresholds == {0, days_threshold}

\* 麦旋风 (no keyword), 免费, 买一送一, 半价, 19.9, 9.9, 薯条, 今日
ScoreWords ==
    { "zh_maixuanfeng", "zh_mianfei", "zh_maiyisongyi", "zh_banjia", "19.9", "9.9",
      "zh_shutiao", "zh_jinri" }

CouponNames == UNION { [1..n -> ScoreWords] : n \in 0..MaxWords }

InitCouponUtils ==
    /\ mcp = McpIdle
    /\ today = 1
    /\ users = <<>>
    /\ runs = <<>>
    /\ tasks = <<>>
    /\ scheduler = SchedulerStart
    /\ accounts = DefaultAccounts(users)
    /\ chunker = ChunkerIdle
    /\ classifier = ClassifierIdle
    /\ coupon_utils \in
           { [CouponUtilsIdle EXCEPT !.pc = "input", !.fn = "check_expiring_soon",
                                     !.text = t, !.threshold = th, !.clock = c] :
               t \in CouponLists, th \in Thresholds, c \in Clocks(MaxLines) }
           \cup { [CouponUtilsIdle EXCEPT !.pc = "input", !.fn = "analyze_coupon_value",
                                          !.text = t] : t \in CouponNames }

NextCouponUtils ==
    \/ check_expiring_soon_returns
    \/ analyze_coupon_value_returns

SpecCouponUtils == InitCouponUtils /\ [][NextCouponUtils]_vars

\* The users bind tokens by message, manage their accounts with /account add,
\* use and del, and unbind, starting from a database of the single-account
\* version: users rows without accounts, or no rows.
AccountUsers == 2

AccountNames == {"default", "work", "home"}

AccountTokens == {"token-a", "token-b"}

InitAccounts ==
    /\ mcp = McpIdle
    /\ today = 1
    /\ users \in UNION {[ids -> {NewUser(token, 1) : token \in AccountTokens}] :
                          ids \in SUBSET (1..AccountUsers)}
    /\ runs = [r \in {"dispatch"} |-> IdleRun]
    /\ tasks = [r \in {"dispatch"} |-> <<>>]
    /\ scheduler = SchedulerStart
    /\ accounts = {}
    /\ chunker = ChunkerIdle
    /\ coupon_utils = CouponUtilsIdle
    /\ classifier = ClassifierIdle

NextAccounts ==
    \/ \E u \in 1..AccountUsers, token \in AccountTokens : handle_message(u, token)
    \/ \E u \in 1..AccountUsers, name \in AccountNames, token \in AccountTokens :
          account_add(u, name, token)
    \/ \E u \in 1..AccountUsers, name \in AccountNames : account_use(u, name)
    \/ \E u \in 1..AccountUsers, name \in AccountNames : account_del(u, name)
    \/ \E u \in 1..AccountUsers : unbind_command(u)

SpecAccounts == InitAccounts /\ [][NextAccounts]_vars

\* One call of send_chunked or send_chunked_update on a text of up to
\* MaxChars characters (a letter, a blank or a line break each) with a chunk
\* size of up to MaxChunk.
MaxChars == 5
MaxChunk == 3

Characters == {"a", " ", "\n"}

ChunkTexts == UNION { [1..n -> Characters] : n \in 0..MaxChars }

InitChunker ==
    /\ mcp = McpIdle
    /\ today = 1
    /\ users = <<>>
    /\ runs = <<>>
    /\ tasks = <<>>
    /\ scheduler = SchedulerStart
    /\ accounts = DefaultAccounts(users)
    /\ coupon_utils = CouponUtilsIdle
    /\ classifier = ClassifierIdle
    /\ chunker \in
           { [ChunkerIdle EXCEPT !.pc = "input", !.fn = f, !.text = t, !.chunk_size = n] :
               f \in {"send_chunked", "send_chunked_update"}, t \in ChunkTexts,
               n \in 1..MaxChunk }

NextChunker ==
    \/ send_chunked
    \/ send_chunked_update

SpecChunker == InitChunker /\ [][NextChunker]_vars


\* ------------------------------------------------------------------ claims

Runs == DOMAIN runs
TaskIds(r) == 1..Len(tasks[r])

\* A remote claim call for user u was begun today: one is under way, or the
\* statistics were updated today.
CalledToday(u) ==
    \/ _coerce_date(users[u].last_claim_at) = today
    \/ \E r \in Runs : \E i \in TaskIds(r) :
          tasks[r][i].user_id = u /\ tasks[r][i].pc = "calling"

\* C1: for every tenant and day at most one claim run makes the remote call:
\* no run begins the call for a tenant for whom a call was already begun that
\* day, whether by a run that has ended or by one still alive.
C1_AtMostOneEffectiveRun ==
    [][\A r \in Runs : \A i \in TaskIds(r) :
          (tasks[r][i].pc = "pending" /\ tasks'[r][i].pc = "calling")
              => ~CalledToday(tasks[r][i].user_id)]_vars

\* C2: a claim task whose idempotency check finds last_claim_success = 1 and
\* last_claim_at on today's date ends at once as skipped: it begins no remote
\* call, sends no notification and leaves the users table as it is.
C2_SkipLeavesAllUnchanged ==
    [][\A r \in Runs : \A i \in TaskIds(r) :
          LET t == tasks[r][i]
          IN  ( /\ t.pc = "pending"
                /\ tasks'[r][i].pc # "pending"
                /\ users[t.user_id].last_claim_success = 1
                /\ _coerce_date(users[t.user_id].last_claim_at) = today )
              => /\ tasks'[r][i] = Ended(t, "skipped", "none")
                 /\ users' = users]_vars

\* A later run of the day skipped the user whose claim had succeeded.
C2_Witness ==
    \E r \in Runs : \E i \in TaskIds(r) :
        /\ tasks[r][i].outcome = "skipped"
        /\ users[tasks[r][i].user_id].last_claim_success = 1
        /\ users[tasks[r][i].user_id].total_success = 1

\* C3: no job of any kind ends by raising: a fault while one tenant is
\* processed stays within that tenant's coroutine.
C3_NoRunRaises == \A r \in Runs : runs[r].state # "raised"

\* C4: at any moment at most 5 claim coroutines are past the semaphore and
\* not yet ended, over all the runs alive.
C4_AtMostFiveInFlight ==
    Cardinality({ ri \in Runs \X (DOMAIN users) :
                    ri[2] \in InFlight(ri[1]) /\ runs[ri[1]].kind = "claim" })
        <= ClaimConcurrency

\* The exchanges whose result claim_for_token returns as an auth-error string
\* (is_token_invalid_result of it holds).
AuthErrorExchanges ==
    { ex \in Exchanges :
        \A token \in DispatchTokens : is_token_invalid_result(claim_for_token(token, ex)) }

\* C5 as first stated: a task whose remote claim call returns an auth-error
\* string sets auto_claim_enabled to 0, and when it ends it has sent the
\* credential-refresh prompt exactly once if reporting is enabled for the
\* tenant, and nothing if reporting is disabled; when the run ends the flag
\* is still 0.
C5_PromptSentExactlyOnce ==
    [][\A r \in Runs : \A i \in TaskIds(r) :
          LET t == tasks[r][i]
          IN  /\ (t.pc = "calling" /\ tasks'[r][i].pc # "calling") =>
                    \A ex \in AuthErrorExchanges :
                        claim_returns(r, i, ex)
                            => /\ users'[t.user_id].auto_claim_enabled = 0
                               /\ ~ReportOn(t.report_enabled)
                                     => tasks'[r][i] = Ended(t, "completed", "none")
              /\ (t.pc = "sending" /\ t.msg = "prompt" /\ tasks'[r][i].pc = "done")
                    => tasks'[r][i].sent = "prompt"
              /\ (runs[r].state = "running" /\ runs'[r].state = "idle"
                    /\ t.sent = "prompt")
                    => users[t.user_id].auto_claim_enabled = 0]_vars

\* C5: a task whose remote claim call returns an auth-error string sets
\* auto_claim_enabled to 0 as it records the result, and no step of a run sets
\* the flag back.  If reporting is enabled it then makes one
\* safe_bot_send_message of the prompt and ends: the prompt is delivered once
\* when one of the 3 tries is accepted, and not at all when a try raises
\* another error than RetryAfter or when all 3 tries end in RetryAfter.  If
\* reporting is disabled it ends without sending.
C5_DisabledAndPromptAtMostOnce ==
    [][\A r \in Runs : \A i \in TaskIds(r) :
          LET t == tasks[r][i]
          IN  /\ (t.pc = "calling" /\ tasks'[r][i].pc # "calling") =>
                    \A ex \in AuthErrorExchanges :
                        claim_returns(r, i, ex)
                            => /\ users'[t.user_id].auto_claim_enabled = 0
                               /\ tasks'[r][i] =
                                    IF ReportOn(t.report_enabled)
                                    THEN [t EXCEPT !.pc = "sending", !.msg = "prompt"]
                                    ELSE Ended(t, "completed", "none")
              /\ (t.pc = "sending" /\ t.msg = "prompt" /\ tasks'[r][i].pc # "sending") =>
                    \A a \in TelegramAnswers :
                        send_returns(r, i, a)
                            => /\ tasks'[r][i].pc = "done"
                               /\ tasks'[r][i].sent =
                                    IF \E k \in 1..Min(Len(a), 3) :
                                          a[k] = "ok" /\ \A j \in 1..(k - 1) : a[j] = "RetryAfter"
                                    THEN "prompt" ELSE "none"
              /\ (users[t.user_id].auto_claim_enabled = 0
                    /\ users'[t.user_id].auto_claim_enabled # 0)
                    => (tasks' = tasks /\ runs' = runs)]_vars

\* The user was disabled and the prompt was delivered.
C5_Witness ==
    \E r \in Runs : \E i \in TaskIds(r) :
        /\ tasks[r][i].pc = "done"
        /\ tasks[r][i].sent = "prompt"
        /\ users[tasks[r][i].user_id].auto_claim_enabled = 0

\* C6: when every attempt of the exchange was answered HTTP 401, the claim
\* task disables the user and, reporting being on, goes on to send the prompt.
C6_SessionAuthFailureDisables ==
    [][\A r \in Runs : \A i \in TaskIds(r) :
          (tasks[r][i].pc = "calling" /\ tasks'[r][i].pc # "calling") =>
              \A ex \in ExhaustedExchanges :
                  (claim_returns(r, i, ex) /\ ex.exc \in AuthExc)
                      => /\ users'[tasks[r][i].user_id].auto_claim_enabled = 0
                         /\ ReportOn(tasks[r][i].report_enabled)
                               => tasks'[r][i].msg = "prompt"]_vars

\* The step that starts run r creates coroutines for enabled users only.
OnlyEnabledUsers(r) ==
    \A i \in 1..Len(tasks'[r]) : users[tasks'[r][i].user_id].auto_claim_enabled # 0

\* C7: a job of any kind that starts while auto_claim_enabled of a user is 0
\* creates no coroutine for that user, and a job never takes on a user after
\* its start: remote calls being made by these coroutines only, none is made
\* for the user by a run started while the flag is 0.
C7_NoCallWhileDisabled ==
    [][\A r \in Runs :
          /\ (runs[r].state = "idle" /\ runs'[r].state # "idle") => OnlyEnabledUsers(r)
          /\ (runs[r].state # "idle" /\ runs'[r].state # "idle")
                => /\ Len(tasks'[r]) = Len(tasks[r])
                   /\ \A i \in TaskIds(r) : tasks'[r][i].user_id = tasks[r][i].user_id]_vars

\* A digest run that started after a claim run had disabled user 1 has a
\* coroutine for user 2 only.
C7_Witness ==
    \E r \in Runs :
        /\ runs[r].kind = "today"
        /\ users[1].auto_claim_enabled = 0
        /\ users[1].last_claim_success = 0
        /\ Len(tasks[r]) = 1
        /\ tasks[r][1].user_id = 2
        /\ tasks[r][1].pc = "recommending"

\* C8: after an attempt that failed with an authentication failure the call
\* has returned: no sleep and no further attempt follow.
C8_NoRetryAfterAuthFailure ==
    (mcp.raised # <<>> /\ mcp.raised[Len(mcp.raised)] \in AuthExc)
        => (mcp.pc = "returned" /\ mcp.attempt_number = 1)

\* C9 as first stated: a call whose every attempt fails is retried 3 times
\* before it gives up.
C9_ThreeRetries == mcp.how = "exhausted" => Len(mcp.slept) = 3

\* C9: one call_mcp_tool makes at most 3 attempts, that is 2 retries; it
\* waits 1 s before the second attempt and 2 s before the third, never more
\* than 10 s; when the third attempt fails it returns without another attempt.
C9_ThreeAttemptsTwoWaits ==
    /\ mcp.attempt_number <= 3
    /\ mcp.opened = mcp.attempt_number
    /\ mcp.slept \in {<<>>, <<1>>, <<1, 2>>}
    /\ \A k \in 1..Len(mcp.slept) : mcp.slept[k] <= 10
    /\ Len(mcp.slept) \in {mcp.attempt_number - 1, mcp.attempt_number}
    /\ mcp.how = "exhausted"
          => (mcp.pc = "returned" /\ mcp.attempt_number = 3 /\ mcp.slept = <<1, 2>>)

\* The third attempt failed after waits of 1 s and 2 s.
C9_Witness ==
    /\ mcp.how = "exhausted"
    /\ Len(mcp.raised) = 3
    /\ mcp.raised[3] \in TransientExc

\* C10: the value call_mcp_tool returns on the 60 s timeout is not the value
\* it returns on a generic service failure.
C10_TimeoutValueDistinct == mcp.how = "timeout" => mcp.ret # FriendlyGeneric

\* C11: when every attempt of the exchange raised the rate-limit answer (429),
\* call_mcp_tool returns the rate-limit friendly string.
C11_RateLimitFriendly ==
    (mcp.how = "exhausted" /\ \A k \in 1..Len(mcp.raised) : mcp.raised[k] = "HTTP429")
        => (mcp.pc = "returned" /\ mcp.ret = Friendly429 /\ mcp.ret # FriendlyGeneric)

\* C12: a timeout failure is returned only after the attempts have reached the
\* retry limit: a timeout is followed by another attempt while attempts remain.
C12_TimeoutRetried == mcp.how = "timeout" => mcp.attempt_number = max_attempt_number

\* C13: a call with an empty credential or the placeholder returns the
\* invalid-token value at once: no session opened, no attempt, no wait.
C13_RejectedWithoutCall ==
    (mcp.pc # "idle" /\ mcp.token \in {"", "your_token_here"})
        => /\ mcp.pc = "returned"
           /\ mcp.ret = InvalidTokenText
           /\ mcp.opened = 0
           /\ mcp.attempt_number = 0
           /\ mcp.slept = <<>>
           /\ mcp.raised = <<>>

\* The placeholder was passed and the call has returned.
C13_Witness == mcp.pc = "returned" /\ mcp.token = "your_token_here"

\* C14: call_mcp_tool never raises: once the exchange, the clean-up or the
\* push has failed the call has returned one of its failure strings.
C14_NeverRaises ==
    /\ mcp.pc \in {"idle", "attempting", "sleeping", "returned"}
    /\ mcp.how \in {"exhausted", "not_retried", "timeout", "cleanup_failed", "push_failed"}
          => (mcp.pc = "returned" /\ mcp.ret \in {Friendly429, FriendlyGeneric})

\* Each kind of failure has been returned as a value: this one is the timeout.
C14_Witness == mcp.pc = "returned" /\ mcp.how = "timeout"

\* The index of a time of day in Minutes.
MinuteIndex(hhmm) == CHOOSE k \in 1..Len(Minutes) : Minutes[k] = hhmm

\* C15: each entry of schedule_map is fired at most once on each calendar
\* day, whatever the timing of the iterations, also across a restart.
C15_FiresAtMostOncePerDay ==
    \A hhmm \in DOMAIN schedule_map : \A d \in 1..MaxDay :
        scheduler.handed_off[hhmm][d] <= 1

\* C16: every entry whose minute the clock has run through on a day has been
\* handed off exactly once on that day: none is skipped, also when an
\* iteration of the loop was late.
C16_HandedOffExactlyOnce ==
    \A hhmm \in DOMAIN schedule_map : \A d \in 1..MaxDay :
        (d < today \/ (d = today /\ MinuteIndex(hhmm) < scheduler.clock))
            => scheduler.handed_off[hhmm][d] = 1

\* The user ids of the coroutines of run r, in the order of creation.
TaskUsers(tt) == [i \in 1..Len(tt) |-> tt[i].user_id]

\* The ids of the enabled users, in primary-key order.
RECURSIVE Ascending(_)
Ascending(ids) ==
    IF ids = {} THEN <<>>
    ELSE LET u == CHOOSE x \in ids : \A y \in ids : x <= y
         IN  <<u>> \o Ascending(ids \ {u})

EnabledIds ==
    {u \in DOMAIN users : users[u].auto_claim_enabled \in {None, 1}}

\* C17: the coroutines of a run are those of the users enabled when the run
\* starts (each of them holds a token), one each; while the run is alive no
\* coroutine is added or removed whatever happens to the users table; and a
\* coroutine whose user has been disabled or deleted goes on as any other: it
\* can take its next step, and it ends as skipped, completed or failed.
C17_RosterReadOnceAtStart ==
    [][\A r \in Runs :
        /\ (runs[r].state = "idle" /\ runs'[r].state # "idle")
              => TaskUsers(tasks'[r]) = Ascending(EnabledIds)
        /\ (runs[r].state # "idle" /\ runs'[r].state # "idle")
              => TaskUsers(tasks'[r]) = TaskUsers(tasks[r])
        /\ \A i \in TaskIds(r) :
              LET t == tasks[r][i]
              IN  /\ (t.pc = "pending" /\ MayAcquire(r, i))
                        => ENABLED process_user_claim(r, i)
                  /\ t.pc = "calling"
                        => \A ex \in RosterExchanges : ENABLED claim_returns(r, i, ex)
                  /\ t.pc = "sending"
                        => \A a \in RosterAnswers : ENABLED send_returns(r, i, a)
                  /\ (runs'[r].state # "idle" /\ tasks'[r][i].pc = "done")
                        => tasks'[r][i].outcome \in {"skipped", "completed", "failed"}
     ]_vars

\* A run is alive that holds the completed coroutine of a user who is no
\* longer in the table, while a user enabled in the table has no coroutine in
\* it.
C17_Witness ==
    \E r \in Runs :
        /\ runs[r].state = "running"
        /\ \E i \in TaskIds(r) :
              /\ tasks[r][i].pc = "done"
              /\ tasks[r][i].outcome = "completed"
              /\ tasks[r][i].user_id \notin DOMAIN users
        /\ \E u \in DOMAIN users :
              /\ users[u].auto_claim_enabled = 1
              /\ \A i \in TaskIds(r) : tasks[r][i].user_id # u

\* The exchanges that end in a transient failure: every attempt raised a
\* network error, a 5xx or a 429, or the 60 s timeout expired.
TransientExchanges ==
    {ex \in Exchanges :
        ex.how = "timeout" \/ (ex.how = "exhausted" /\ ex.exc \in TransientExc)}

\* C18: when a tenant's claim call ends in a transient failure the task
\* records the attempt as failed (last_claim_success = 0, one more failure
\* counted) and leaves auto_claim_enabled as it is; and a tenant who is
\* enabled and whose last attempt failed gets a coroutine in the next run,
\* which makes the remote call again instead of skipping.
C18_TransientFailureKeepsEnabled ==
    [][\A r \in Runs :
        /\ \A i \in TaskIds(r) :
              LET t == tasks[r][i]
                  u == t.user_id
              IN  /\ (t.pc = "calling" /\ tasks'[r][i].pc # "calling")
                        => \A ex \in TransientExchanges :
                             claim_returns(r, i, ex)
                               => /\ users'[u].last_claim_success = 0
                                  /\ users'[u].total_failed = users[u].total_failed + 1
                                  /\ users'[u].total_success = users[u].total_success
                                  /\ users'[u].auto_claim_enabled = users[u].auto_claim_enabled
                  /\ (t.pc = "pending" /\ tasks'[r][i].pc # "pending"
                         /\ users[u].last_claim_success = 0)
                        => tasks'[r][i].pc = "calling"
        /\ (runs[r].state = "idle" /\ runs'[r].state # "idle" /\ runs'[r].kind = "claim")
              => \A u \in DOMAIN users :
                    (users[u].auto_claim_enabled = 1 /\ users[u].last_claim_success = 0)
                        => \E i \in 1..Len(tasks'[r]) : tasks'[r][i].user_id = u
     ]_vars

\* A run after a failed one: the tenant whose last attempt failed is still
\* enabled and its remote call is under way again.
C18_Witness ==
    \E r \in Runs : \E i \in TaskIds(r) :
        /\ tasks[r][i].pc = "calling"
        /\ users[tasks[r][i].user_id].last_claim_success = 0
        /\ users[tasks[r][i].user_id].total_failed = 1
        /\ users[tasks[r][i].user_id].auto_claim_enabled = 1

\* C19: every run of the claim job terminates. Each of its coroutines ends
\* as skipped, completed or failed; the permits taken and the permits free
\* always add up to the five of the semaphore, so a waiting coroutine is
\* eventually admitted; and the run ends (logs its completion) only when all
\* its coroutines have ended.
C19_RunTerminates ==
    /\ [](\A r \in LiveRuns :
            runs[r].state = "running"
              => runs[r].semaphore + Cardinality(InFlight(r)) = ClaimConcurrency)
    /\ [][\A r \in LiveRuns :
            (runs[r].state = "running" /\ runs'[r].state # "running")
              => /\ runs'[r].state = "idle"
                 /\ \A i \in TaskIds(r) :
                       /\ tasks[r][i].pc = "done"
                       /\ tasks[r][i].outcome \in {"skipped", "completed", "failed"}]_vars
    /\ \A r \in LiveRuns :
          /\ (runs[r].state = "running") ~> (runs[r].state = "idle")
          /\ (Len(tasks[r]) = LiveTenants /\ tasks[r][LiveTenants].pc = "pending")
                ~> (Len(tasks[r]) = LiveTenants /\ tasks[r][LiveTenants].pc # "pending")

\* All permits are taken, one of them by the sixth coroutine, which had to
\* wait for a permit one of the first five gave back when it ended.
C19_Witness ==
    \E r \in Runs :
        /\ runs[r].state = "running"
        /\ runs[r].semaphore = 0
        /\ Len(tasks[r]) > ClaimConcurrency
        /\ tasks[r][ClaimConcurrency + 1].pc = "calling"
        /\ \E j \in 1..ClaimConcurrency : tasks[r][j].pc = "done"

\* The text holds 成功: n or success: n with n at least 1.
HasSuccessCount(text) ==
    \E d \in CountMatches(text, {"zh_chenggong"}, FALSE)
             \cup CountMatches(lower(text), {"success"}, TRUE) :
        DigitVal(text[d]) >= 1

\* C20: every result text that holds a labelled success count of at least 1
\* is classified as a success by is_claim_success_result.
C20_SuccessCountMeansSuccess ==
    (classifier.pc = "classified" /\ HasSuccessCount(classifier.result))
        => classifier.outcome.success

\* A marker that is_result_error_message (lines 964-983) or
\* is_token_invalid_result (lines 1005-1008) takes for a rejected credential.
HasAuthMarker(text) ==
    \/ \E marker \in { <<"401">>, <<"unauthorized">>, <<"forbidden">>,
                       <<"invalid", " ", "token">>, <<"token", " ", "invalid">> } :
           Contains(lower(text), marker)
    \/ \E marker \in { <<"Token", " ", "zh_wuxiao">>, <<"token", " ", "zh_wuxiao">>,
                       <<"Token", "zh_yishixiao">>, <<"token", "zh_yishixiao">>,
                       <<"zh_weishouquan">>, <<"zh_renzhengshibai">> } :
           Contains(text, marker)

\* C21: every result text that holds an auth-error marker of either classifier
\* is classified as the auth error (is_token_invalid_result true,
\* is_claim_success_result false), whatever counts the text also holds.
C21_AuthMarkerMeansAuthError ==
    (classifier.pc = "classified" /\ HasAuthMarker(classifier.result))
        => (classifier.outcome.token_invalid /\ ~classifier.outcome.success)

\* The text holds 失败: n or fail/failed/failure: n with n at least 1.
HasFailureCount(text) ==
    \E d \in CountMatches(text, {"zh_shibai"}, FALSE)
             \cup CountMatches(lower(text), {"fail", "failed", "failure"}, TRUE) :
        DigitVal(text[d]) >= 1

\* The text holds a labelled success count, 成功: n or success: n.
HasSuccessMarker(text) ==
    CountMatches(text, {"zh_chenggong"}, FALSE)
        \cup CountMatches(lower(text), {"success"}, TRUE) # {}

\* C22: every result text that holds a labelled failure count of at least 1
\* and no success marker is an error for is_result_error_message and no
\* success for is_claim_success_result.
C22_FailureCountMeansNotSuccess ==
    (/\ classifier.pc = "classified"
     /\ HasFailureCount(classifier.result)
     /\ ~HasSuccessMarker(classifier.result))
        => (/\ ~classifier.outcome.success
            /\ is_result_error_message(classifier.result))

\* The elements of a sequence.
Range(seq) == { seq[i] : i \in 1..Len(seq) }

\* A call of check_expiring_soon has returned.
ExpiryPassDone ==
    coupon_utils.pc = "returned" /\ coupon_utils.fn = "check_expiring_soon"

\* C23: check_expiring_soon returns only records with an expiry date and
\* 0 <= days_left <= threshold; a record of the pass with a negative days_left
\* or without an expiry date is not returned.
C23_OnlyExpiringReturned ==
    ExpiryPassDone =>
        /\ \A c \in Range(coupon_utils.result) :
               /\ c \in Range(coupon_utils.expiring_coupons)
               /\ c.expiry_date # None
               /\ 0 <= c.days_left
               /\ c.days_left <= coupon_utils.threshold
        /\ \A c \in Range(coupon_utils.expiring_coupons) :
               (c.expiry_date = None \/ c.days_left < 0)
                   => c \notin Range(coupon_utils.result)

\* A pass that held a record without an expiry date and a record that expired
\* before now, and returned neither.
C23_Witness ==
    /\ ExpiryPassDone
    /\ \E c \in Range(coupon_utils.expiring_coupons) : c.expiry_date = None
    /\ \E c \in Range(coupon_utils.expiring_coupons) :
           c.expiry_date # None /\ c.days_left < 0
    /\ coupon_utils.result = <<>>

\* C24: every record of one pass of check_expiring_soon is evaluated against
\* the one instant the pass read at its start, the year of a date without a
\* year as well as days_left, even when midnight passes during the pass.
C24_OneNowPerPass ==
    ExpiryPassDone =>
        LET lines == splitlines(coupon_utils.text)
            now == coupon_utils.clock[1]
        IN  \A c \in Range(coupon_utils.expiring_coupons) :
                c.expiry_date # None =>
                    /\ c.expiry_date =
                           parse_expiry_date(strip(lines[c.expiry_line_idx + 1]), now)
                    /\ c.days_left = days_left(c.expiry_date, now)

\* The lines up to the line of a record's expiry date that are its raw_text
\* (counted from 1): the last of them is the line the record was started on.
\* There is none when a later name line gave the record its name.
StartLines(lines, c) ==
    { a \in 1..(c.expiry_line_idx + 1) : strip(lines[a]) = c.raw_text }

\* C25: a blank line and a new name line each close the record under way, so
\* an expiry date found after a blank line is never attached to a record that
\* was started before that blank line.
C25_BlankLineCloses ==
    ExpiryPassDone =>
        LET lines == splitlines(coupon_utils.text)
        IN  \A c \in Range(coupon_utils.expiring_coupons) :
                (c.expiry_date # None /\ StartLines(lines, c) # {}) =>
                    LET start == CHOOSE a \in StartLines(lines, c) :
                                     \A b \in StartLines(lines, c) : b <= a
                    IN  \A k \in start..(c.expiry_line_idx + 1) :
                            strip(lines[k]) # <<>>

\* A call of analyze_coupon_value has returned.
ScoreDone ==
    coupon_utils.pc = "returned" /\ coupon_utils.fn = "analyze_coupon_value"

\* The weight of each keyword of the names of the model, by its class.
WordWeights ==
    [w \in ScoreWords |->
        CASE w = "zh_mianfei" -> {50}
          [] w = "zh_maiyisongyi" -> {40}
          [] w = "zh_banjia" -> {35}
          [] w = "19.9" -> {25, 15}
          [] w = "9.9" -> {15}
          [] w = "zh_shutiao" -> {10}
          [] w = "zh_jinri" -> {5}
          [] OTHER -> {}]

RECURSIVE SumOf(_)
SumOf(weights) ==
    IF weights = {} THEN 0
    ELSE LET w == CHOOSE x \in weights : TRUE IN w + SumOf(weights \ {w})

\* The weights of the classes a name matches, each class once.
MatchedWeights(name) == UNION { WordWeights[name[i]] : i \in 1..Len(name) }

\* C26: analyze_coupon_value returns an integer in [0,100] for every name, the
\* empty one included: 50 plus the fixed weight of every keyword class the name
\* matches, capped at 100; a keyword added to the name never lowers the score.
C26_ScoreBoundedAndMonotone ==
    ScoreDone =>
        /\ coupon_utils.result \in 0..100
        /\ coupon_utils.result = Min(50 + SumOf(MatchedWeights(coupon_utils.text)), 100)
        /\ coupon_utils.text = <<>> => coupon_utils.result = 50
        /\ \A w \in ScoreWords :
               /\ analyze_coupon_value(Append(coupon_utils.text, w)) \in 0..100
               /\ analyze_coupon_value(Append(coupon_utils.text, w)) >= coupon_utils.result

\* A name whose weights add up to more than 100: the score is the cap.
C26_Witness ==
    /\ ScoreDone
    /\ 50 + SumOf(MatchedWeights(coupon_utils.text)) > 100
    /\ coupon_utils.result = 100

\* C27: the steps of one tenant's claim task run in the order idempotency
\* check, remote call, classification, state update, notification. The step
\* that ends the remote call writes last_claim_at, last_claim_success, the
\* counters and the auto-disable before the notification is begun, and the
\* step that ends the notification, failing or not, leaves the users table as
\* it is.
C27_UpdateBeforeNotification ==
    [][\A r \in Runs : \A i \in TaskIds(r) :
          i \in DOMAIN tasks'[r] =>
              LET t == tasks[r][i]
                  n == tasks'[r][i]
                  u == t.user_id
              IN  /\ (t.pc = "pending" /\ n.pc # "pending") =>
                        /\ n.pc = "calling" \/ n = Ended(t, "skipped", "none")
                        /\ users' = users
                  /\ (t.pc = "calling" /\ n.pc # "calling") =>
                        /\ n.pc \in {"sending", "done"}
                        /\ users'[u].last_claim_at = <<today>>
                        /\ users'[u].total_success + users'[u].total_failed
                               = users[u].total_success + users[u].total_failed + 1
                        /\ \A ex \in Exchanges :
                               claim_returns(r, i, ex) =>
                                   LET o == ClaimOutcomes[t.token, ex]
                                   IN  /\ users'[u].last_claim_success =
                                              (IF o.success THEN 1 ELSE 0)
                                       /\ o.token_invalid
                                              => users'[u].auto_claim_enabled = 0
                  /\ (n.pc = "sending" /\ t.pc # "sending") => t.pc = "calling"
                  /\ (t.pc = "sending" /\ n.pc # "sending") =>
                        /\ n.pc = "done"
                        /\ users' = users]_vars

\* The notification failed and the update of the same task is in the table.
C27_Witness ==
    \E r \in Runs : \E i \in TaskIds(r) :
        /\ tasks[r][i].pc = "done"
        /\ tasks[r][i].outcome = "failed"
        /\ users[tasks[r][i].user_id].last_claim_at = <<today>>
        /\ users[tasks[r][i].user_id].total_success
               + users[tasks[r][i].user_id].total_failed = 1

\* C28 as first stated: in a claim run a tenant whose claim_report_enabled is
\* 0 receives no notification while the run state is updated, and a tenant
\* whose flag is 1 or unset receives exactly one notification for every task
\* that was not skipped.
C28_ExactlyOneNotification ==
    \A r \in Runs : \A i \in TaskIds(r) :
        LET t == tasks[r][i]
        IN  (runs[r].kind = "claim" /\ t.pc = "done" /\ t.outcome # "skipped") =>
                IF t.report_enabled = 0
                THEN /\ t.sent = "none"
                     /\ users[t.user_id].last_claim_at # <<>>
                ELSE t.sent # "none"

\* C28: for a tenant whose claim_report_enabled was 0 when the run read the
\* roster, the task writes the run state (last_claim_at, last_claim_success,
\* the counters, the auto-disable on an auth error) and ends without a send.
\* For a tenant whose flag was 1 or unset, a task that is not skipped makes
\* one safe_bot_send_message call: the notification is delivered once when one
\* of the 3 tries is accepted, and not at all when a try raises another error
\* than RetryAfter or when all 3 tries end in RetryAfter.
C28_OneSendUnlessDisabled ==
    [][\A r \in Runs : \A i \in TaskIds(r) :
          (runs[r].kind = "claim" /\ i \in DOMAIN tasks'[r]) =>
              LET t == tasks[r][i]
                  n == tasks'[r][i]
                  u == t.user_id
              IN  /\ (t.pc = "calling" /\ n.pc # "calling") =>
                        /\ users'[u].last_claim_at = <<today>>
                        /\ users'[u].total_success + users'[u].total_failed
                               = users[u].total_success + users[u].total_failed + 1
                        /\ \A ex \in Exchanges :
                               claim_returns(r, i, ex) =>
                                   LET o == ClaimOutcomes[t.token, ex]
                                   IN  /\ users'[u].last_claim_success =
                                              (IF o.success THEN 1 ELSE 0)
                                       /\ o.token_invalid
                                              => users'[u].auto_claim_enabled = 0
                                       /\ n = IF t.report_enabled = 0
                                              THEN Ended(t, "completed", "none")
                                              ELSE [t EXCEPT !.pc = "sending",
                                                             !.msg = o.message]
                                       /\ o.message # "none"
                  /\ (t.pc = "sending" /\ n.pc # "sending") =>
                        \A a \in TelegramAnswers :
                            send_returns(r, i, a) =>
                                /\ n.pc = "done"
                                /\ n.sent =
                                     IF \E k \in 1..Min(Len(a), 3) :
                                           a[k] = "ok" /\ \A j \in 1..(k - 1) : a[j] = "RetryAfter"
                                     THEN t.msg ELSE "none"
                  /\ (t.sent = "none" /\ n.sent # "none") => t.pc = "sending"]_vars

\* A tenant with reporting off: the task has ended without a send and the
\* run state is written.
C28_Witness ==
    \E r \in Runs : \E i \in TaskIds(r) :
        /\ runs[r].kind = "claim"
        /\ tasks[r][i].pc = "done"
        /\ tasks[r][i].outcome = "completed"
        /\ tasks[r][i].report_enabled = 0
        /\ tasks[r][i].sent = "none"
        /\ users[tasks[r][i].user_id].last_claim_at = <<today>>
        /\ users[tasks[r][i].user_id].total_success
               + users[tasks[r][i].user_id].total_failed = 1

\* The sub-call of the digest ended in a friendly error string.
PartFailed(token, ex) ==
    ex.how # "timeout" /\ is_mcp_error_message(call_mcp_tool(token, ex))

\* C30: when exactly one of the two sub-calls of the today digest returns a
\* friendly error and the other succeeds, the tenant is sent the digest with
\* the successful part and not the service-down message.
C30_PartialFailureStillSendsDigest ==
    [][\A r \in Runs : \A i \in TaskIds(r) :
          (tasks[r][i].pc = "recommending" /\ i \in DOMAIN tasks'[r]) =>
              \A cal \in TodayExchanges, av \in TodayExchanges :
                  (/\ today_returns(r, i, cal, av, FALSE)
                   /\ PartFailed(tasks[r][i].token, cal) # PartFailed(tasks[r][i].token, av))
                      => tasks'[r][i].msg # "service_down"]_vars

\* The last-run fields of a row.
LastRun(row) == <<row.last_claim_at, row.last_claim_success>>

\* The step ends the remote call of a dispatch task of user u.
DispatchWrites(u) ==
    \E r \in Runs : \E i \in TaskIds(r) :
        /\ tasks[r][i].user_id = u
        /\ tasks[r][i].pc = "calling"
        /\ i \in DOMAIN tasks'[r]
        /\ tasks'[r][i].pc # "calling"

\* C29 as first stated: a tenant's last_claim_at and last_claim_success are
\* changed only by the tenant's dispatch task after an attempt, by no chat
\* command.
C29_OnlyDispatchWrites ==
    [][\A u \in DOMAIN users \cap DOMAIN users' :
          LastRun(users'[u]) # LastRun(users[u]) => DispatchWrites(u)]_vars

\* C29: the last_claim_at and last_claim_success of a row are changed only by
\* update_claim_stats, which the tenant's dispatch task calls after an attempt
\* and the /claim command calls after a manual claim; a row that a bind
\* creates has both fields unset.
C29_OnlyUpdateClaimStatsWrites ==
    [][/\ \A u \in DOMAIN users \cap DOMAIN users' :
             LastRun(users'[u]) # LastRun(users[u]) =>
                 \/ DispatchWrites(u)
                 \/ \E ex \in CommandExchanges : claim_command(u, ex)
       /\ \A u \in DOMAIN users' \ DOMAIN users :
             LastRun(users'[u]) = <<<<>>, None>>]_vars

\* The dispatch task of a user is in its remote call, so it found no
\* successful claim of today, and the row now holds one: /claim wrote it.
C29_Witness ==
    \E r \in Runs : \E i \in TaskIds(r) :
        /\ tasks[r][i].pc = "calling"
        /\ tasks[r][i].user_id \in DOMAIN users
        /\ users[tasks[r][i].user_id].last_claim_success = 1
        /\ users[tasks[r][i].user_id].last_claim_at = <<today>>

\* C31: a claim task that sets a tenant's auto_claim_enabled to 0 records the
\* same attempt as a failure: last_claim_success is 0, total_failed is one
\* more and total_success is as before.
C31_DisabledMeansFailureRecorded ==
    [][\A r \in Runs : \A i \in TaskIds(r) :
          LET t == tasks[r][i]
              u == t.user_id
          IN  (/\ t.pc = "calling"
               /\ i \in DOMAIN tasks'[r]
               /\ tasks'[r][i].pc # "calling"
               /\ users[u].auto_claim_enabled = 1
               /\ users'[u].auto_claim_enabled = 0) =>
                  /\ users'[u].last_claim_success = 0
                  /\ users'[u].total_failed = users[u].total_failed + 1
                  /\ users'[u].total_success = users[u].total_success]_vars

\* A task has ended, its tenant is disabled and the attempt is on record as
\* the tenant's one failure.
C31_Witness ==
    \E r \in Runs : \E i \in TaskIds(r) :
        /\ tasks[r][i].pc = "done"
        /\ tasks[r][i].outcome # "skipped"
        /\ users[tasks[r][i].user_id].auto_claim_enabled = 0
        /\ users[tasks[r][i].user_id].last_claim_success = 0
        /\ users[tasks[r][i].user_id].total_failed = 1
        /\ users[tasks[r][i].user_id].total_success = 0

\* The counters of a user as a reader of the statistics sees them: a user
\* without a row has none.
Counted(table, u, field) == IF u \in DOMAIN table THEN table[u][field] ELSE 0

\* A scheduled attempt of user u comes back from the remote call in this step.
AttemptReturns(u) ==
    \E r \in DOMAIN runs : \E i \in 1..Len(tasks[r]) :
        /\ tasks[r][i].user_id = u
        /\ tasks[r][i].pc = "calling"
        /\ i \in 1..Len(tasks'[r])
        /\ tasks'[r][i].pc # "calling"

\* A scheduled task of user u is skipped in this step.
AttemptSkipped(u) ==
    \E r \in DOMAIN runs : \E i \in 1..Len(tasks[r]) :
        /\ tasks[r][i].user_id = u
        /\ tasks[r][i].pc = "pending"
        /\ i \in 1..Len(tasks'[r])
        /\ tasks'[r][i].outcome = "skipped"

C33_OneActiveAccount ==
    \A u \in 1..AccountUsers :
        LET mine == {a \in accounts : a.user_id = u}
            active == {a \in mine : a.is_active = 1}
        IN  /\ Cardinality(active) <= 1
            /\ mine # {} => Cardinality(active) = 1

\* A user has three accounts, and the active one is not the one that a
\* bound token makes: /account add or /account use activated it and
\* deactivated the others.
C33_Witness ==
    \E u \in 1..AccountUsers :
        /\ Cardinality({a \in accounts : a.user_id = u}) = 3
        /\ \E a \in accounts : a.user_id = u /\ a.is_active = 1 /\ a.name = "home"
        /\ \E a \in accounts : a.user_id = u /\ a.is_active = 0 /\ a.name = "default"

\* C34: whenever a user has an active account, the users row exists and its
\* token, which get_all_users hands to the scheduled jobs, is the token of
\* that active account, which the commands read through get_user_token.
C34_SameCredential ==
    \A a \in accounts :
        a.is_active = 1 =>
            /\ a.user_id \in DOMAIN users
            /\ users[a.user_id].mcp_token = a.mcp_token
            /\ \A i \in 1..Len(get_all_users) :
                  get_all_users[i].user_id = a.user_id =>
                      get_all_users[i].token = get_user_token(a.user_id)

\* A user switched to an account whose token is not the token of the other
\* account: both tables carry the token of the account in use.
C34_Witness ==
    \E a, b \in accounts :
        /\ a.user_id = b.user_id
        /\ a.is_active = 1 /\ b.is_active = 0
        /\ a.mcp_token # b.mcp_token
        /\ b.name = "default"
        /\ a.user_id \in DOMAIN users
        /\ users[a.user_id].mcp_token = a.mcp_token

\* C35: a record whose expiry date is the calendar date of the pass is
\* returned by check_expiring_soon with days_left = 0, whatever the threshold,
\* and every returned record that the reminder labels "expires today" has
\* its expiry date on the calendar date of the pass.
C35_TodayMeansToday ==
    ExpiryPassDone =>
        LET now == coupon_utils.clock[1]
        IN  /\ \A c \in Range(coupon_utils.expiring_coupons) :
                   c.expiry_date = now =>
                       /\ c.days_left = 0
                       /\ c \in Range(coupon_utils.result)
            /\ \A c \in Range(coupon_utils.result) :
                   urgency(c.days_left) = "zh_jintianguoqi" => c.expiry_date = now

\* C36: every chunk that send_chunked and send_chunked_update hand to the
\* message sender is non-empty and at most chunk_size characters long.
C36_ChunksNonEmptyAndBounded ==
    chunker.pc = "sent" =>
        \A k \in 1..Len(chunker.handed) :
            /\ chunker.handed[k] # <<>>
            /\ Len(chunker.handed[k]) <= chunker.chunk_size

=============================================================================
